---------------------------- MODULE Spec2Model ----------------------------
(***************************************************************************)
(* A model of nrbf-parser: the MS-NRBF record decoder (src/src/decoder.rs), *)
(* the encoder (src/src/encoder.rs), the tag tables (src/src/records.rs)    *)
(* and the interleaved JSON projection (src/src/interleaved.rs).            *)
(*                                                                          *)
(* Representation.  A byte is a number in 0..255, a byte stream a sequence  *)
(* of bytes.  An i32 is an integer in -2^31..2^31-1.  A Rust String is the  *)
(* sequence of its UTF-8 bytes.  Option<T> is <<>> (None) or <<x>> (Some).  *)
(* Values of the 64-bit types, of u32 and of the float types are kept as    *)
(* their little-endian bit pattern (the model checker's integers are 32     *)
(* bits wide).  A HashMap is a function whose DOMAIN is its key set.        *)
(***************************************************************************)
EXTENDS Integers, Sequences, FiniteSets, TLC

VARIABLES
    source,             \* the bytes behind Decoder.reader
    trees,              \* the records `source` was serialised from
    reader_drains,      \* does a short read_exact consume what is left?
    overflow_checks,    \* is the build one with arithmetic overflow checks?
    pos,                \* how many bytes the reader has handed out
    metadata_registry,  \* Decoder.metadata_registry
    library_registry,   \* Decoder.library_registry
    offset,             \* Decoder.offset
    last,               \* what the last decode_next call returned
    before,             \* reader position and registries when that call began
    records,            \* the records the caller has collected
    writer,             \* the bytes behind Encoder.writer
    encoded,            \* how many of `records` have been passed to encode
    encode_failed,      \* has an encode call returned Err?
    probe,              \* input and output of a pure-function check
    preserve_order,     \* is serde_json built with its preserve_order feature?
    int_step,           \* how far the interleaved reconstruction check has come
    interleaved_json,   \* the Value to_interleaved returned
    interleaved_reconstructed_records,  \* the records from_interleaved returned
    int_reconstructed_data,             \* the bytes encoded from those records
    int_encode_failed   \* has an encode call on one of those records returned Err?

\* the state of the interleaved reconstruction check
int_vars == <<preserve_order, int_step, interleaved_json,
              interleaved_reconstructed_records, int_reconstructed_data,
              int_encode_failed>>

vars == <<source, trees, reader_drains, overflow_checks, pos, metadata_registry,
          library_registry, offset, last, before, records, writer, encoded,
          encode_failed, probe, int_vars>>

-----------------------------------------------------------------------------
(* Bytes and fixed-width integers                                           *)

Byte == 0..255

Min(a, b) == IF a < b THEN a ELSE b

\* i32::to_le_bytes
ToLE32(v) ==
    << v % 256, (v \div 256) % 256, (v \div 65536) % 256, (v \div 16777216) % 256 >>

\* i32::from_le_bytes
FromLE32(b) ==
    (IF b[4] >= 128 THEN b[4] - 256 ELSE b[4]) * 16777216
        + b[3] * 65536 + b[2] * 256 + b[1]

\* i16::to_le_bytes / u16::to_le_bytes
ToLE16(v) == << v % 256, (v \div 256) % 256 >>

\* i16::from_le_bytes
FromLE16(b) == (IF b[2] >= 128 THEN b[2] - 256 ELSE b[2]) * 256 + b[1]

\* u16::from_le_bytes
FromLE16U(b) == b[2] * 256 + b[1]

\* `x as usize` followed by Vec::with_capacity: a negative i32 becomes a
\* capacity above isize::MAX bytes and with_capacity panics ("capacity overflow")
WithCapacityPanics(n) == n < 0

RECURSIVE Concat(_)
Concat(ss) == IF ss = <<>> THEN <<>> ELSE Head(ss) \o Concat(Tail(ss))

-----------------------------------------------------------------------------
(* records.rs: the three tag tables                                         *)

\* impl TryFrom<u8> for RecordType; <<>> stands for Err(InvalidRecordType(value))
\* RecordType::try_from with the unassigned tags 18..20 taken for MessageEnd
RecordType_try_from_gapless(value) ==
    IF value \in 0..22 THEN <<"MessageEnd">> ELSE <<>>

\* RecordType::try_from without the two method-call tags
RecordType_try_from_without_calls(value) ==
    CASE value = 0 -> <<"SerializedStreamHeader">>
      [] value = 1 -> <<"ClassWithId">>
      [] value = 2 -> <<"SystemClassWithMembers">>
      [] value = 3 -> <<"ClassWithMembers">>
      [] value = 4 -> <<"SystemClassWithMembersAndTypes">>
      [] value = 5 -> <<"ClassWithMembersAndTypes">>
      [] value = 6 -> <<"BinaryObjectString">>
      [] value = 7 -> <<"BinaryArray">>
      [] value = 8 -> <<"MemberPrimitiveTyped">>
      [] value = 9 -> <<"MemberReference">>
      [] value = 10 -> <<"ObjectNull">>
      [] value = 11 -> <<"MessageEnd">>
      [] value = 12 -> <<"BinaryLibrary">>
      [] value = 13 -> <<"ObjectNullMultiple256">>
      [] value = 14 -> <<"ObjectNullMultiple">>
      [] value = 15 -> <<"ArraySinglePrimitive">>
      [] value = 16 -> <<"ArraySingleObject">>
      [] value = 17 -> <<"ArraySingleString">>
      [] OTHER -> <<>>

RecordType_try_from(value) ==
    CASE value = 0 -> <<"SerializedStreamHeader">>
      [] value = 1 -> <<"ClassWithId">>
      [] value = 2 -> <<"SystemClassWithMembers">>
      [] value = 3 -> <<"ClassWithMembers">>
      [] value = 4 -> <<"SystemClassWithMembersAndTypes">>
      [] value = 5 -> <<"ClassWithMembersAndTypes">>
      [] value = 6 -> <<"BinaryObjectString">>
      [] value = 7 -> <<"BinaryArray">>
      [] value = 8 -> <<"MemberPrimitiveTyped">>
      [] value = 9 -> <<"MemberReference">>
      [] value = 10 -> <<"ObjectNull">>
      [] value = 11 -> <<"MessageEnd">>
      [] value = 12 -> <<"BinaryLibrary">>
      [] value = 13 -> <<"ObjectNullMultiple256">>
      [] value = 14 -> <<"ObjectNullMultiple">>
      [] value = 15 -> <<"ArraySinglePrimitive">>
      [] value = 16 -> <<"ArraySingleObject">>
      [] value = 17 -> <<"ArraySingleString">>
      [] value = 21 -> <<"BinaryMethodCall">>
      [] value = 22 -> <<"BinaryMethodReturn">>
      [] OTHER -> <<>>

\* `RecordType::X as u8`
RecordType_as_u8(t) ==
    CASE t = "SerializedStreamHeader" -> 0
      [] t = "ClassWithId" -> 1
      [] t = "SystemClassWithMembers" -> 2
      [] t = "ClassWithMembers" -> 3
      [] t = "SystemClassWithMembersAndTypes" -> 4
      [] t = "ClassWithMembersAndTypes" -> 5
      [] t = "BinaryObjectString" -> 6
      [] t = "BinaryArray" -> 7
      [] t = "MemberPrimitiveTyped" -> 8
      [] t = "MemberReference" -> 9
      [] t = "ObjectNull" -> 10
      [] t = "MessageEnd" -> 11
      [] t = "BinaryLibrary" -> 12
      [] t = "ObjectNullMultiple256" -> 13
      [] t = "ObjectNullMultiple" -> 14
      [] t = "ArraySinglePrimitive" -> 15
      [] t = "ArraySingleObject" -> 16
      [] t = "ArraySingleString" -> 17
      [] t = "BinaryMethodCall" -> 21
      [] t = "BinaryMethodReturn" -> 22

\* impl TryFrom<u8> for BinaryType; <<>> stands for Err(InvalidBinaryType(value))
BinaryType_try_from(value) ==
    CASE value = 0 -> <<"Primitive">>
      [] value = 1 -> <<"String">>
      [] value = 2 -> <<"Object">>
      [] value = 3 -> <<"SystemClass">>
      [] value = 4 -> <<"Class">>
      [] value = 5 -> <<"ObjectArray">>
      [] value = 6 -> <<"StringArray">>
      [] value = 7 -> <<"PrimitiveArray">>
      [] OTHER -> <<>>

\* `BinaryType::X as u8`
BinaryType_as_u8(t) ==
    CASE t = "Primitive" -> 0
      [] t = "String" -> 1
      [] t = "Object" -> 2
      [] t = "SystemClass" -> 3
      [] t = "Class" -> 4
      [] t = "ObjectArray" -> 5
      [] t = "StringArray" -> 6
      [] t = "PrimitiveArray" -> 7

\* impl TryFrom<u8> for PrimitiveType; <<>> stands for Err(InvalidPrimitiveType(value))
PrimitiveType_try_from(value) ==
    CASE value = 1 -> <<"Boolean">>
      [] value = 2 -> <<"Byte">>
      [] value = 3 -> <<"Char">>
      [] value = 5 -> <<"Decimal">>
      [] value = 6 -> <<"Double">>
      [] value = 7 -> <<"Int16">>
      [] value = 8 -> <<"Int32">>
      [] value = 9 -> <<"Int64">>
      [] value = 10 -> <<"SByte">>
      [] value = 11 -> <<"Single">>
      [] value = 12 -> <<"TimeSpan">>
      [] value = 13 -> <<"DateTime">>
      [] value = 14 -> <<"UInt16">>
      [] value = 15 -> <<"UInt32">>
      [] value = 16 -> <<"UInt64">>
      [] value = 17 -> <<"Null">>
      [] value = 18 -> <<"String">>
      [] OTHER -> <<>>

\* `PrimitiveType::X as u8`
PrimitiveType_as_u8(t) ==
    CASE t = "Boolean" -> 1
      [] t = "Byte" -> 2
      [] t = "Char" -> 3
      [] t = "Decimal" -> 5
      [] t = "Double" -> 6
      [] t = "Int16" -> 7
      [] t = "Int32" -> 8
      [] t = "Int64" -> 9
      [] t = "SByte" -> 10
      [] t = "Single" -> 11
      [] t = "TimeSpan" -> 12
      [] t = "DateTime" -> 13
      [] t = "UInt16" -> 14
      [] t = "UInt32" -> 15
      [] t = "UInt64" -> 16
      [] t = "Null" -> 17
      [] t = "String" -> 18

-----------------------------------------------------------------------------
(* error.rs: the error values                                               *)

NoError == [e |-> "none", msg |-> "", n |-> 0]
Io == [e |-> "Io", msg |-> "", n |-> 0]
InvalidRecordType(b) == [e |-> "InvalidRecordType", msg |-> "", n |-> b]
InvalidBinaryType(b) == [e |-> "InvalidBinaryType", msg |-> "", n |-> b]
InvalidPrimitiveType(b) == [e |-> "InvalidPrimitiveType", msg |-> "", n |-> b]
InvalidUtf8 == [e |-> "InvalidUtf8", msg |-> "", n |-> 0]
InvalidStringLength(n) == [e |-> "InvalidStringLength", msg |-> "", n |-> n]
\* Error::Custom(message); n is the number the message is formatted with
Custom(msg, n) == [e |-> "Custom", msg |-> msg, n |-> n]

\* Result<T>: Ok(v), Err(e), or a panic that unwinds out of the call.  `st`
\* is the decoder (reader position, registries, offset) as the call left it.
Ok(v, st) == [k |-> "ok", v |-> v, st |-> st, e |-> NoError]
Err(e, st) == [k |-> "err", v |-> <<>>, st |-> st, e |-> e]
Panicked(st) == [k |-> "panic", v |-> <<>>, st |-> st, e |-> NoError]

-----------------------------------------------------------------------------
(* decoder.rs: reading bytes.  A decoder value `st` is                      *)
(*   [pos, reg, lib, off, hit_eof]: the reader's position in `source`, the  *)
(*   two registries, Decoder.offset, and whether a read has run past the    *)
(*   end of the source.                                                     *)

\* std::io::Read::read_exact on Decoder.reader: n bytes, or an UnexpectedEof
\* error after which it is unspecified how much of the rest was consumed
read_exact(st, n) ==
    IF st.pos + n <= Len(source)
    THEN Ok(SubSeq(source, st.pos + 1, st.pos + n), [st EXCEPT !.pos = @ + n])
    ELSE Err(Io, [st EXCEPT !.pos = IF reader_drains THEN Len(source) ELSE @,
                            !.hit_eof = TRUE])

\* the `?` operator: an Err (or a panic) leaves the function at once, an Ok
\* value goes on into the rest of the function with the decoder as it is then
Then(r, F(_, _)) == IF r.k # "ok" THEN r ELSE F(r.v, r.st)

\* read_bytes counting the read, not its bytes
read_bytes_counting_reads(st, n) ==
    Then(read_exact(st, n), LAMBDA buf, s : Ok(buf, [s EXCEPT !.off = @ + 1]))

\* the shape `buf = [0u8; n]; read_exact(&mut buf)?; self.offset += n`
read_bytes(st, n) ==
    Then(read_exact(st, n), LAMBDA buf, s : Ok(buf, [s EXCEPT !.off = @ + n]))

read_i32(st) == Then(read_bytes(st, 4), LAMBDA buf, s : Ok(FromLE32(buf), s))

read_u8(st) == Then(read_bytes(st, 1), LAMBDA buf, s : Ok(buf[1], s))

\* `(x as i32) << s` on 32-bit two's complement, 0 <= s < 32
Shl32(x, s) ==
    IF s = 0 THEN x
    ELSE LET m == 2 ^ (32 - s)
             low == x % m
         IN  (IF low >= m \div 2 THEN low - m ELSE low) * (2 ^ s)

\* `value | x` where no bit is set in both (value < 2^shift, x a multiple of it)
BitOrDisjoint(value, x) == value + x

\* the loop of read_variable_length_int with the bound one byte later
RECURSIVE read_variable_length_int_loop_six(_, _, _)
read_variable_length_int_loop_six(st, value, shift) ==
    Then(read_u8(st), LAMBDA b, s :
        IF b < 128 THEN Ok(BitOrDisjoint(value, Shl32(b % 128, shift % 32)), s)
        ELSE IF shift + 7 >= 42
             THEN Err(Custom("Variable length int too long", 0), s)
        ELSE read_variable_length_int_loop_six(
                 s, BitOrDisjoint(value, Shl32(b % 128, shift % 32)), shift + 7))

RECURSIVE read_variable_length_int_loop(_, _, _)
read_variable_length_int_loop(st, value, shift) ==
    Then(read_u8(st), LAMBDA b, s :
        IF b < 128 THEN Ok(BitOrDisjoint(value, Shl32(b % 128, shift)), s)
        ELSE IF shift + 7 >= 35
             THEN Err(Custom("Variable length int too long", 0), s)
        ELSE read_variable_length_int_loop(
                 s, BitOrDisjoint(value, Shl32(b % 128, shift)), shift + 7))

read_variable_length_int(st) == read_variable_length_int_loop(st, 0, 0)

\* is b a UTF-8 continuation byte?
IsCont(b) == b >= 128 /\ b <= 191

\* String::from_utf8(buf).is_ok()
RECURSIVE IsValidUtf8(_)
IsValidUtf8(b) ==
    LET n == Len(b)
        c == b[1]
    IN  IF n = 0 THEN TRUE
        ELSE IF c < 128 THEN IsValidUtf8(Tail(b))
        ELSE IF c >= 194 /\ c <= 223
             THEN n >= 2 /\ IsCont(b[2]) /\ IsValidUtf8(SubSeq(b, 3, n))
        ELSE IF c >= 224 /\ c <= 239
             THEN /\ n >= 3
                  /\ IsCont(b[2]) /\ IsCont(b[3])
                  /\ (c = 224 => b[2] >= 160)
                  /\ (c = 237 => b[2] <= 159)
                  /\ IsValidUtf8(SubSeq(b, 4, n))
        ELSE IF c >= 240 /\ c <= 244
             THEN /\ n >= 4
                  /\ IsCont(b[2]) /\ IsCont(b[3]) /\ IsCont(b[4])
                  /\ (c = 240 => b[2] >= 144)
                  /\ (c = 244 => b[2] <= 143)
                  /\ IsValidUtf8(SubSeq(b, 5, n))
        ELSE FALSE

\* read_length_prefixed_string with a negative length read as the empty string
\* and the bytes taken as they are
read_length_prefixed_string_unchecked(st) ==
    Then(read_variable_length_int(st), LAMBDA length, s :
        IF length <= 0 THEN Ok(<<>>, s)
        ELSE Then(read_exact(s, length), LAMBDA buf, s2 :
                 Ok(buf, [s2 EXCEPT !.off = @ + length])))

read_length_prefixed_string(st) ==
    Then(read_variable_length_int(st), LAMBDA length, s :
        IF length < 0 THEN Err(InvalidStringLength(length), s)
        ELSE IF length = 0 THEN Ok(<<>>, s)
        ELSE Then(read_exact(s, length), LAMBDA buf, s2 :
                 IF IsValidUtf8(buf) THEN Ok(buf, [s2 EXCEPT !.off = @ + length])
                 ELSE Err(InvalidUtf8, [s2 EXCEPT !.off = @ + length])))

\* hex::encode of one byte: two lower-case hex digits (as ASCII)
HexDigit(n) == IF n < 10 THEN 48 + n ELSE 87 + n

RECURSIVE hex_encode(_)
hex_encode(b) ==
    IF b = <<>> THEN <<>>
    ELSE << HexDigit(Head(b) \div 16), HexDigit(Head(b) % 16) >> \o hex_encode(Tail(b))

\* PrimitiveValue: [pt |-> variant, v |-> payload].  The payload is a sequence:
\* <<n>> for a value that fits 32 bits (Boolean: <<1>> is true, <<0>> false),
\* the little-endian bytes for the wider types, the bytes of a String, the
\* ASCII hex digits of a Decimal, <<>> for Null.
Prim(pt, v) == [pt |-> pt, v |-> v]
PrimNull == Prim("Null", <<>>)

\* how many bytes read_primitive_value takes with one read_exact
\* (String is length-prefixed, Null reads nothing)
PrimitiveWidth(pt) ==
    CASE pt \in {"Boolean", "Byte", "Char", "SByte"} -> 1
      [] pt \in {"Int16", "UInt16"} -> 2
      [] pt \in {"Int32", "UInt32", "Single"} -> 4
      [] pt \in {"Int64", "UInt64", "Double", "TimeSpan", "DateTime"} -> 8
      [] pt = "Decimal" -> 16
      [] pt = "Null" -> 0

read_primitive_value(st, pt) ==
    IF pt = "Null" THEN Ok(PrimNull, st)
    ELSE IF pt = "String"
         THEN Then(read_length_prefixed_string(st), LAMBDA str, s :
                   Ok(Prim("String", str), s))
    ELSE Then(read_bytes(st, PrimitiveWidth(pt)), LAMBDA b, s :
            CASE pt = "Boolean" -> Ok(Prim("Boolean", <<IF b[1] # 0 THEN 1 ELSE 0>>), s)
              [] pt = "Byte" -> Ok(Prim("Byte", <<b[1]>>), s)
              [] pt = "Char" -> Ok(Prim("Char", <<b[1]>>), s)
              [] pt = "Int16" -> Ok(Prim("Int16", <<FromLE16(b)>>), s)
              [] pt = "Int32" -> Ok(Prim("Int32", <<FromLE32(b)>>), s)
              [] pt = "Int64" -> Ok(Prim("Int64", b), s)
              [] pt = "TimeSpan" -> Ok(Prim("Int64", b), s)
              [] pt = "DateTime" -> Ok(Prim("Int64", b), s)
              [] pt = "SByte" ->
                   Ok(Prim("SByte", <<IF b[1] >= 128 THEN b[1] - 256 ELSE b[1]>>), s)
              [] pt = "Single" -> Ok(Prim("Single", b), s)
              [] pt = "Double" -> Ok(Prim("Double", b), s)
              [] pt = "Decimal" -> Ok(Prim("Decimal", hex_encode(b)), s)
              [] pt = "UInt16" -> Ok(Prim("UInt16", <<FromLE16U(b)>>), s)
              [] pt = "UInt32" -> Ok(Prim("UInt32", b), s)
              [] pt = "UInt64" -> Ok(Prim("UInt64", b), s))

-----------------------------------------------------------------------------
(* records.rs: the record model                                             *)

\* AdditionalTypeInfo: Primitive(pt) | SystemClass(name) | Class{type_name, library_id} | None
AtiPrimitive(pt) == [ai |-> "Primitive", pt |-> pt, type_name |-> <<>>, library_id |-> 0]
AtiSystemClass(s) == [ai |-> "SystemClass", pt |-> "", type_name |-> s, library_id |-> 0]
AtiClass(s, id) == [ai |-> "Class", pt |-> "", type_name |-> s, library_id |-> id]
AtiNone == [ai |-> "None", pt |-> "", type_name |-> <<>>, library_id |-> 0]

\* ObjectValue: Primitive(PrimitiveValue) | Record(Box<Record>)
OvPrimitive(p) == [ov |-> "Primitive", val |-> p]
OvRecord(r) == [ov |-> "Record", val |-> r]
OvNull == OvPrimitive(PrimNull)

ClassInfo(object_id, name, member_count, member_names) ==
    [object_id |-> object_id, name |-> name, member_count |-> member_count,
     member_names |-> member_names]

MemberTypeInfo(binary_type_enums, additional_infos) ==
    [binary_type_enums |-> binary_type_enums, additional_infos |-> additional_infos]

\* decoder.rs ClassInfoWithTypes, the value type of metadata_registry
ClassInfoWithTypes(class_info, member_type_info, library_id) ==
    [class_info |-> class_info, member_type_info |-> member_type_info,
     library_id |-> library_id]

\* HashMap::insert that leaves the value of a key already present
MapInsert_if_absent(map, key, value) ==
    [k \in (DOMAIN map) \cup {key} |-> IF k \in DOMAIN map THEN map[k] ELSE value]

\* HashMap::insert
MapInsert(map, key, value) ==
    [k \in (DOMAIN map) \cup {key} |-> IF k = key THEN value ELSE map[k]]

-----------------------------------------------------------------------------
(* Wrapping 32-bit multiplication, for `lengths.iter().product()`           *)

MaxI32 == 2147483647
MinI32 == -MaxI32 - 1

Abs(x) == IF x < 0 THEN -x ELSE x

\* i32::wrapping_mul, by bytes
WrapMul32(a, b) ==
    LET x == ToLE32(a)
        y == ToLE32(b)
        c1 == x[1] * y[1]
        c2 == x[1] * y[2] + x[2] * y[1] + c1 \div 256
        c3 == x[1] * y[3] + x[2] * y[2] + x[3] * y[1] + c2 \div 256
        c4 == x[1] * y[4] + x[2] * y[3] + x[3] * y[2] + x[4] * y[1] + c3 \div 256
    IN  FromLE32(<< c1 % 256, c2 % 256, c3 % 256, c4 % 256 >>)

\* does a * b leave the i32 range?
MulOverflows(a, b) ==
    IF a = 0 \/ b = 0 THEN FALSE
    ELSE IF a = MinI32 THEN b # 1
    ELSE IF b = MinI32 THEN a # 1
    ELSE IF Abs(a) <= MaxI32 \div Abs(b) THEN FALSE
    ELSE ~ ((a < 0) # (b < 0) /\ WrapMul32(a, b) = MinI32
            /\ MinI32 % Abs(b) = 0 /\ MinI32 \div Abs(b) = -Abs(a))

\* Iterator::product over i32: <<>> when the multiplication panics
\* (overflow checks on), else <<p>>
RECURSIVE product(_, _)
product(lengths, acc) ==
    IF lengths = <<>> THEN <<acc>>
    ELSE IF overflow_checks /\ MulOverflows(acc, Head(lengths)) THEN <<>>
    ELSE product(Tail(lengths), WrapMul32(acc, Head(lengths)))

-----------------------------------------------------------------------------
(* decoder.rs: the record parsers                                           *)

read_serialization_header(st) ==
    Then(read_i32(st), LAMBDA root_id, s1 :
    Then(read_i32(s1), LAMBDA header_id, s2 :
    Then(read_i32(s2), LAMBDA major_version, s3 :
    Then(read_i32(s3), LAMBDA minor_version, s4 :
        Ok([t |-> "SerializationHeader", root_id |-> root_id, header_id |-> header_id,
            major_version |-> major_version, minor_version |-> minor_version], s4)))))

read_binary_library(st) ==
    Then(read_i32(st), LAMBDA library_id, s1 :
    Then(read_length_prefixed_string(s1), LAMBDA library_name, s2 :
        Ok([t |-> "BinaryLibrary", library_id |-> library_id,
            library_name |-> library_name], s2)))

\* `for _ in 0..n { v.push(self.read_length_prefixed_string()?) }`
RECURSIVE read_strings(_, _, _)
read_strings(st, n, acc) ==
    IF n <= 0 THEN Ok(acc, st)
    ELSE Then(read_length_prefixed_string(st), LAMBDA str, s :
              read_strings(s, n - 1, Append(acc, str)))

\* `for _ in 0..n { v.push(self.read_i32()?) }`
RECURSIVE read_i32s(_, _, _)
read_i32s(st, n, acc) ==
    IF n <= 0 THEN Ok(acc, st)
    ELSE Then(read_i32(st), LAMBDA v, s : read_i32s(s, n - 1, Append(acc, v)))

read_class_info(st) ==
    Then(read_i32(st), LAMBDA object_id, s1 :
    Then(read_length_prefixed_string(s1), LAMBDA name, s2 :
    Then(read_i32(s2), LAMBDA member_count, s3 :
        IF WithCapacityPanics(member_count) THEN Panicked(s3)
        ELSE Then(read_strings(s3, member_count, <<>>), LAMBDA member_names, s4 :
                  Ok(ClassInfo(object_id, name, member_count, member_names), s4)))))

\* BinaryType::try_from(self.read_u8()?)?
read_binary_type(st) ==
    Then(read_u8(st), LAMBDA b, s :
        IF BinaryType_try_from(b) = <<>> THEN Err(InvalidBinaryType(b), s)
        ELSE Ok(BinaryType_try_from(b)[1], s))

\* PrimitiveType::try_from(self.read_u8()?)?
read_primitive_type(st) ==
    Then(read_u8(st), LAMBDA b, s :
        IF PrimitiveType_try_from(b) = <<>> THEN Err(InvalidPrimitiveType(b), s)
        ELSE Ok(PrimitiveType_try_from(b)[1], s))

\* `for _ in 0..count { v.push(BinaryType::try_from(self.read_u8()?)?) }`
RECURSIVE read_binary_types(_, _, _)
read_binary_types(st, n, acc) ==
    IF n <= 0 THEN Ok(acc, st)
    ELSE Then(read_binary_type(st), LAMBDA bt, s :
              read_binary_types(s, n - 1, Append(acc, bt)))

\* the `match bt { ... }` that reads the AdditionalTypeInfo of one BinaryType
read_additional_type_info(st, bt) ==
    CASE bt = "Primitive" ->
            Then(read_primitive_type(st), LAMBDA pt, s : Ok(AtiPrimitive(pt), s))
      [] bt = "SystemClass" ->
            Then(read_length_prefixed_string(st), LAMBDA type_name, s :
                 Ok(AtiSystemClass(type_name), s))
      [] bt = "Class" ->
            Then(read_length_prefixed_string(st), LAMBDA type_name, s1 :
            Then(read_i32(s1), LAMBDA library_id, s2 :
                 Ok(AtiClass(type_name, library_id), s2)))
      [] OTHER -> Ok(AtiNone, st)

RECURSIVE read_additional_infos(_, _, _)
read_additional_infos(st, bts, acc) ==
    IF bts = <<>> THEN Ok(acc, st)
    ELSE Then(read_additional_type_info(st, Head(bts)), LAMBDA info, s :
              read_additional_infos(s, Tail(bts), Append(acc, info)))

read_member_type_info(st, count) ==
    IF WithCapacityPanics(count) THEN Panicked(st)
    ELSE Then(read_binary_types(st, count, <<>>), LAMBDA binary_type_enums, s1 :
         Then(read_additional_infos(s1, binary_type_enums, <<>>),
              LAMBDA additional_infos, s2 :
                  Ok(MemberTypeInfo(binary_type_enums, additional_infos), s2)))

\* `for _ in 0..length { values.push(self.read_primitive_value(pt)?) }`
RECURSIVE read_primitive_values(_, _, _, _)
read_primitive_values(st, n, pt, acc) ==
    IF n <= 0 THEN Ok(acc, st)
    ELSE Then(read_primitive_value(st, pt), LAMBDA v, s :
              read_primitive_values(s, n - 1, pt, Append(acc, v)))

\* n copies of ObjectValue::Primitive(PrimitiveValue::Null); none when n <= 0
Nulls(n) == IF n <= 0 THEN <<>> ELSE [i \in 1..n |-> OvNull]

RECURSIVE decode_next(_)
RECURSIVE decode_record(_, _)
RECURSIVE read_object_value(_, _, _)
RECURSIVE read_all_member_values_loop(_, _, _, _, _)
RECURSIVE read_all_elements_loop(_, _, _, _, _, _)

\* read_object_value taking a nested end of stream for a null
read_object_value_lenient(st, bt, add_info) ==
    IF bt = "Primitive"
    THEN IF add_info.ai = "Primitive"
         THEN Then(read_primitive_value(st, add_info.pt), LAMBDA p, s :
                   Ok(OvPrimitive(p), s))
         ELSE Err(Custom("Expected primitive type info", 0), st)
    ELSE Then(decode_next(st), LAMBDA record, s :
              IF record # <<>> THEN Ok(OvRecord(record[1]), s)
              ELSE Ok(OvNull, s))

read_object_value(st, bt, add_info) ==
    IF bt = "Primitive"
    THEN IF add_info.ai = "Primitive"
         THEN Then(read_primitive_value(st, add_info.pt), LAMBDA p, s :
                   Ok(OvPrimitive(p), s))
         ELSE Err(Custom("Expected primitive type info", 0), st)
    ELSE Then(decode_next(st), LAMBDA record, s :
              IF record # <<>> THEN Ok(OvRecord(record[1]), s)
              ELSE Err(Custom("Expected record for object value", 0), s))

\* the member loop with the null-run expansion of read_all_elements: a null run
\* pushes null_count values
RECURSIVE read_all_member_values_loop_expanding(_, _, _, _, _)
read_all_member_values_loop_expanding(st, member_count, member_type_info, i, values) ==
    IF i > member_count THEN Ok(values, st)
    ELSE IF member_type_info # <<>>
         THEN Then(read_object_value(st, member_type_info[1].binary_type_enums[i],
                                     member_type_info[1].additional_infos[i]),
                   LAMBDA v, s :
                       read_all_member_values_loop_expanding(
                           s, member_count, member_type_info, i + 1, Append(values, v)))
    ELSE Then(decode_next(st), LAMBDA record, s :
              IF record = <<>>
              THEN Err(Custom("Expected record for member value", 0), s)
              ELSE IF record[1].t \in {"ObjectNullMultiple", "ObjectNullMultiple256"}
              THEN read_all_member_values_loop_expanding(
                       s, member_count, member_type_info, i + 1,
                       values \o Nulls(record[1].null_count))
              ELSE read_all_member_values_loop_expanding(
                       s, member_count, member_type_info, i + 1,
                       Append(values, OvRecord(record[1]))))

\* the `for i in 0..class_info.member_count` loop of read_all_member_values,
\* at member i (1-based) with `values` pushed so far
read_all_member_values_loop(st, member_count, member_type_info, i, values) ==
    IF i > member_count THEN Ok(values, st)
    ELSE IF member_type_info # <<>>
         THEN Then(read_object_value(st, member_type_info[1].binary_type_enums[i],
                                     member_type_info[1].additional_infos[i]),
                   LAMBDA v, s :
                       read_all_member_values_loop(s, member_count, member_type_info,
                                                   i + 1, Append(values, v)))
    ELSE Then(decode_next(st), LAMBDA record, s :
              IF record # <<>>
              THEN read_all_member_values_loop(s, member_count, member_type_info,
                                               i + 1, Append(values, OvRecord(record[1])))
              ELSE Err(Custom("Expected record for member value", 0), s))

read_all_member_values(st, class_info, member_type_info) ==
    IF WithCapacityPanics(class_info.member_count) THEN Panicked(st)
    ELSE read_all_member_values_loop(st, class_info.member_count, member_type_info,
                                     1, <<>>)

\* the `while i < count` loop of read_all_elements
read_all_elements_loop(st, count, bt, add_info, i, values) ==
    IF ~ (i < count) THEN Ok(values, st)
    ELSE Then(read_object_value(st, bt, add_info), LAMBDA val, s :
            IF val.ov = "Record"
               /\ val.val.t \in {"ObjectNullMultiple", "ObjectNullMultiple256"}
            THEN read_all_elements_loop(s, count, bt, add_info,
                     i + (IF val.val.null_count > 0 THEN val.val.null_count ELSE 0),
                     values \o Nulls(val.val.null_count))
            ELSE IF val.ov = "Record" /\ val.val.t = "ObjectNull"
                 THEN read_all_elements_loop(s, count, bt, add_info, i + 1,
                                             Append(values, OvNull))
            ELSE read_all_elements_loop(s, count, bt, add_info, i + 1,
                                        Append(values, val)))

read_all_elements(st, count, bt, add_info) ==
    IF WithCapacityPanics(count) THEN Panicked(st)
    ELSE read_all_elements_loop(st, count, bt, add_info, 0, <<>>)

\* RegisterClass into a registry emptied first
RegisterClass_alone(st, class_info, member_type_info, library_id) ==
    [st EXCEPT !.reg = MapInsert(<<>>, class_info.object_id,
                          ClassInfoWithTypes(class_info, member_type_info, library_id))]

\* HashMap::insert of a ClassInfoWithTypes under class_info.object_id
RegisterClass(st, class_info, member_type_info, library_id) ==
    [st EXCEPT !.reg = MapInsert(@, class_info.object_id,
                          ClassInfoWithTypes(class_info, member_type_info, library_id))]

\* read_class_with_members_and_types installing the entry after the member
\* values have been read
read_class_with_members_and_types_late(st) ==
    Then(read_class_info(st), LAMBDA class_info, s1 :
    Then(read_member_type_info(s1, class_info.member_count), LAMBDA member_type_info, s2 :
    Then(read_i32(s2), LAMBDA library_id, s3 :
    Then(read_all_member_values(s3, class_info, <<member_type_info>>),
         LAMBDA member_values, s4 :
             Ok([t |-> "ClassWithMembersAndTypes", class_info |-> class_info,
                 member_type_info |-> member_type_info, library_id |-> library_id,
                 member_values |-> member_values],
                RegisterClass(s4, class_info, <<member_type_info>>, <<library_id>>))))))

read_class_with_members_and_types(st) ==
    Then(read_class_info(st), LAMBDA class_info, s1 :
    Then(read_member_type_info(s1, class_info.member_count), LAMBDA member_type_info, s2 :
    Then(read_i32(s2), LAMBDA library_id, s3 :
    Then(read_all_member_values(
             RegisterClass(s3, class_info, <<member_type_info>>, <<library_id>>),
             class_info, <<member_type_info>>),
         LAMBDA member_values, s4 :
             Ok([t |-> "ClassWithMembersAndTypes", class_info |-> class_info,
                 member_type_info |-> member_type_info, library_id |-> library_id,
                 member_values |-> member_values], s4)))))

read_system_class_with_members_and_types(st) ==
    Then(read_class_info(st), LAMBDA class_info, s1 :
    Then(read_member_type_info(s1, class_info.member_count), LAMBDA member_type_info, s2 :
    Then(read_all_member_values(
             RegisterClass(s2, class_info, <<member_type_info>>, <<>>),
             class_info, <<member_type_info>>),
         LAMBDA member_values, s3 :
             Ok([t |-> "SystemClassWithMembersAndTypes", class_info |-> class_info,
                 member_type_info |-> member_type_info,
                 member_values |-> member_values], s3))))

read_system_class_with_members(st) ==
    Then(read_class_info(st), LAMBDA class_info, s1 :
    Then(read_all_member_values(RegisterClass(s1, class_info, <<>>, <<>>),
                                class_info, <<>>),
         LAMBDA member_values, s2 :
             Ok([t |-> "SystemClassWithMembers", class_info |-> class_info,
                 member_values |-> member_values], s2)))

read_class_with_members(st) ==
    Then(read_class_info(st), LAMBDA class_info, s1 :
    Then(read_i32(s1), LAMBDA library_id, s2 :
    Then(read_all_member_values(RegisterClass(s2, class_info, <<>>, <<library_id>>),
                                class_info, <<>>),
         LAMBDA member_values, s3 :
             Ok([t |-> "ClassWithMembers", class_info |-> class_info,
                 library_id |-> library_id, member_values |-> member_values], s3))))

\* read_class_with_id with an unregistered metadata id read as a class without
\* members
read_class_with_id_forgiving(st) ==
    Then(read_i32(st), LAMBDA object_id, s1 :
    Then(read_i32(s1), LAMBDA metadata_id, s2 :
        IF metadata_id \notin DOMAIN s2.reg
        THEN Ok([t |-> "ClassWithId", object_id |-> object_id,
                 metadata_id |-> metadata_id, member_values |-> <<>>], s2)
        ELSE Then(read_all_member_values(s2, s2.reg[metadata_id].class_info,
                                         s2.reg[metadata_id].member_type_info),
                  LAMBDA member_values, s3 :
                      Ok([t |-> "ClassWithId", object_id |-> object_id,
                          metadata_id |-> metadata_id,
                          member_values |-> member_values], s3))))

\* read_class_with_id with the registered type information ignored
read_class_with_id_untyped(st) ==
    Then(read_i32(st), LAMBDA object_id, s1 :
    Then(read_i32(s1), LAMBDA metadata_id, s2 :
        IF metadata_id \notin DOMAIN s2.reg
        THEN Err(Custom("Metadata ID {} not found", metadata_id), s2)
        ELSE Then(read_all_member_values(s2, s2.reg[metadata_id].class_info, <<>>),
                  LAMBDA member_values, s3 :
                      Ok([t |-> "ClassWithId", object_id |-> object_id,
                          metadata_id |-> metadata_id,
                          member_values |-> member_values], s3))))

read_class_with_id(st) ==
    Then(read_i32(st), LAMBDA object_id, s1 :
    Then(read_i32(s1), LAMBDA metadata_id, s2 :
        IF metadata_id \notin DOMAIN s2.reg
        THEN Err(Custom("Metadata ID {} not found", metadata_id), s2)
        ELSE Then(read_all_member_values(s2, s2.reg[metadata_id].class_info,
                                         s2.reg[metadata_id].member_type_info),
                  LAMBDA member_values, s3 :
                      Ok([t |-> "ClassWithId", object_id |-> object_id,
                          metadata_id |-> metadata_id,
                          member_values |-> member_values], s3))))

read_binary_array_full(st) ==
    Then(read_i32(st), LAMBDA object_id, s1 :
    Then(read_u8(s1), LAMBDA binary_array_type_enum, s2 :
    Then(read_i32(s2), LAMBDA rank, s3 :
        IF WithCapacityPanics(rank) THEN Panicked(s3)
        ELSE
    Then(read_i32s(s3, rank, <<>>), LAMBDA lengths, s4 :
    Then(IF binary_array_type_enum \in {3, 4, 5}
         THEN Then(read_i32s(s4, rank, <<>>), LAMBDA bounds, s : Ok(<<bounds>>, s))
         ELSE Ok(<<>>, s4),
         LAMBDA lower_bounds, s5 :
    Then(read_binary_type(s5), LAMBDA type_enum, s6 :
    Then(read_additional_type_info(s6, type_enum), LAMBDA additional_type_info, s7 :
        IF product(lengths, 1) = <<>> THEN Panicked(s7)
        ELSE
    Then(read_all_elements(s7, product(lengths, 1)[1], type_enum, additional_type_info),
         LAMBDA element_values, s8 :
             Ok([t |-> "BinaryArray", object_id |-> object_id,
                 binary_array_type_enum |-> binary_array_type_enum, rank |-> rank,
                 lengths |-> lengths, lower_bounds |-> lower_bounds,
                 type_enum |-> type_enum, additional_type_info |-> additional_type_info,
                 element_values |-> element_values], s8)))))))))

\* Ok(Some(record)) of a record parser's Ok(record)
Some(r) == Then(r, LAMBDA v, s : Ok(<<v>>, s))

\* decode_next after the tag byte: `RecordType::try_from(header[0])?` and the
\* `match record_type`
decode_record(byte, st1) ==
    IF RecordType_try_from(byte) = <<>> THEN Err(InvalidRecordType(byte), st1)
    ELSE LET rt == RecordType_try_from(byte)[1]
         IN  CASE rt = "SerializedStreamHeader" -> Some(read_serialization_header(st1))
               [] rt = "BinaryLibrary" ->
                    Then(read_binary_library(st1), LAMBDA lib, s :
                         Ok(<<lib>>, [s EXCEPT !.lib = MapInsert(@, lib.library_id,
                                                                lib.library_name)]))
               [] rt = "ClassWithMembersAndTypes" ->
                    Some(read_class_with_members_and_types(st1))
               [] rt = "SystemClassWithMembersAndTypes" ->
                    Some(read_system_class_with_members_and_types(st1))
               [] rt = "SystemClassWithMembers" -> Some(read_system_class_with_members(st1))
               [] rt = "ClassWithMembers" -> Some(read_class_with_members(st1))
               [] rt = "ClassWithId" -> Some(read_class_with_id(st1))
               [] rt = "BinaryObjectString" ->
                    Then(read_i32(st1), LAMBDA object_id, s1 :
                    Then(read_length_prefixed_string(s1), LAMBDA value, s2 :
                         Ok(<<[t |-> "BinaryObjectString", object_id |-> object_id,
                               value |-> value]>>, s2)))
               [] rt = "BinaryArray" -> Some(read_binary_array_full(st1))
               [] rt = "MemberPrimitiveTyped" ->
                    Then(read_primitive_type(st1), LAMBDA pt, s1 :
                    Then(read_primitive_value(s1, pt), LAMBDA value, s2 :
                         Ok(<<[t |-> "MemberPrimitiveTyped", primitive_type_enum |-> pt,
                               typed_value |-> value]>>, s2)))
               [] rt = "MemberReference" ->
                    Then(read_i32(st1), LAMBDA id_ref, s :
                         Ok(<<[t |-> "MemberReference", id_ref |-> id_ref]>>, s))
               [] rt = "ObjectNull" -> Ok(<<[t |-> "ObjectNull"]>>, st1)
               [] rt = "ObjectNullMultiple256" ->
                    Then(read_u8(st1), LAMBDA null_count, s :
                         Ok(<<[t |-> "ObjectNullMultiple256",
                               null_count |-> null_count]>>, s))
               [] rt = "ObjectNullMultiple" ->
                    Then(read_i32(st1), LAMBDA null_count, s :
                         Ok(<<[t |-> "ObjectNullMultiple", null_count |-> null_count]>>, s))
               [] rt = "ArraySinglePrimitive" ->
                    Then(read_i32(st1), LAMBDA object_id, s1 :
                    Then(read_i32(s1), LAMBDA length, s2 :
                    Then(read_primitive_type(s2), LAMBDA pt, s3 :
                        IF WithCapacityPanics(length) THEN Panicked(s3)
                        ELSE Then(read_primitive_values(s3, length, pt, <<>>),
                                  LAMBDA values, s4 :
                                      Ok(<<[t |-> "ArraySinglePrimitive",
                                            object_id |-> object_id, length |-> length,
                                            primitive_type_enum |-> pt,
                                            element_values |-> values]>>, s4)))))
               [] rt \in {"ArraySingleObject", "ArraySingleString"} ->
                    Then(read_i32(st1), LAMBDA object_id, s1 :
                    Then(read_i32(s1), LAMBDA length, s2 :
                    Then(read_all_elements(s2, length,
                             IF rt = "ArraySingleObject" THEN "Object" ELSE "String",
                             AtiNone),
                         LAMBDA element_values, s3 :
                             Ok(<<[t |-> rt, object_id |-> object_id, length |-> length,
                                   element_values |-> element_values]>>, s3))))
               [] rt = "MessageEnd" -> Ok(<<[t |-> "MessageEnd"]>>, st1)
               [] OTHER -> Err(Custom("Unimplemented record type 0x{:02x}", byte), st1)

\* Decoder::decode_next: Ok(<<record>>) for Ok(Some(record)), Ok(<<>>) for
\* Ok(None), Err(e), or a panic
decode_next(st) ==
    LET header == read_exact(st, 1)
    IN  IF header.k # "ok" THEN Ok(<<>>, header.st)
        ELSE decode_record(header.v[1], [header.st EXCEPT !.off = @ + 1])

-----------------------------------------------------------------------------
(* encoder.rs.  A write is [ok, out]: the bytes it put into the writer and  *)
(* whether it returned Ok(()); a failed write keeps what was written before *)
(* the failure.                                                             *)

Written(bytes) == [ok |-> TRUE, out |-> bytes]
WriteFailed == [ok |-> FALSE, out |-> <<>>]

\* writes in sequence, each `?`-propagated: stop at the first failure
RECURSIVE InOrder(_)
InOrder(ws) ==
    IF ws = <<>> THEN Written(<<>>)
    ELSE IF ~ Head(ws).ok THEN Head(ws)
    ELSE LET rest == InOrder(Tail(ws))
         IN  [ok |-> rest.ok, out |-> Head(ws).out \o rest.out]

write_i32(val) == Written(ToLE32(val))

\* write_u8 keeping the low seven bits
write_u8_ascii(val) == Written(<<val % 128>>)

write_u8(val) == Written(<<val>>)

\* write_variable_length_int without the continuation bit
RECURSIVE write_variable_length_int_bytes_unflagged(_)
write_variable_length_int_bytes_unflagged(value) ==
    LET b == value % 128
        value2 == value \div 128
    IN  IF value2 > 0 THEN <<b>> \o write_variable_length_int_bytes_unflagged(value2)
        ELSE <<b>>

\* write_variable_length_int going on while bit 6 of the last group is set, as a
\* signed encoding does
RECURSIVE write_variable_length_int_bytes_signed(_)
write_variable_length_int_bytes_signed(value) ==
    LET b == value % 128
        value2 == value \div 128
    IN  IF value2 > 0 \/ b >= 64
        THEN <<b + 128>> \o write_variable_length_int_bytes_signed(value2)
        ELSE <<b>>

RECURSIVE write_variable_length_int_bytes(_)
write_variable_length_int_bytes(value) ==
    LET b == value % 128
        value2 == value \div 128
    IN  IF value2 > 0 THEN <<b + 128>> \o write_variable_length_int_bytes(value2)
        ELSE <<b>>

write_variable_length_int(value) == Written(write_variable_length_int_bytes(value))

write_length_prefixed_string(s) ==
    InOrder(<< write_variable_length_int(Len(s)), Written(s) >>)

\* the value of one ASCII hex digit, -1 when it is none (hex::decode takes both cases)
HexValue(c) ==
    IF c >= 48 /\ c <= 57 THEN c - 48
    ELSE IF c >= 97 /\ c <= 102 THEN c - 87
    ELSE IF c >= 65 /\ c <= 70 THEN c - 55
    ELSE -1

\* hex::decode: <<bytes>>, or <<>> for Err (odd length, or a character that is no digit)
RECURSIVE hex_decode(_)
hex_decode(s) ==
    IF s = <<>> THEN << <<>> >>
    ELSE IF Len(s) = 1 \/ HexValue(s[1]) < 0 \/ HexValue(s[2]) < 0 THEN <<>>
    ELSE LET rest == hex_decode(SubSeq(s, 3, Len(s)))
         IN  IF rest = <<>> THEN <<>>
             ELSE << <<HexValue(s[1]) * 16 + HexValue(s[2])>> \o rest[1] >>

write_primitive_value(val) ==
    LET pt == val.pt
        v == val.v
        bytes == hex_decode(v)
    IN  CASE pt = "Boolean" -> write_u8(IF v[1] # 0 THEN 1 ELSE 0)
          [] pt = "Byte" -> write_u8(v[1])
          [] pt = "Char" -> write_u8(v[1] % 256)
          [] pt = "Int16" -> Written(ToLE16(v[1]))
          [] pt = "Int32" -> write_i32(v[1])
          [] pt = "Int64" -> Written(v)
          [] pt = "SByte" -> write_u8(v[1] % 256)
          [] pt = "Single" -> Written(v)
          [] pt = "Double" -> Written(v)
          [] pt = "TimeSpan" -> Written(v)
          [] pt = "DateTime" -> Written(v)
          [] pt = "UInt16" -> Written(ToLE16(v[1]))
          [] pt = "UInt32" -> Written(v)
          [] pt = "UInt64" -> Written(v)
          [] pt = "String" -> write_length_prefixed_string(v)
          [] pt = "Decimal" ->
                IF bytes = <<>> THEN WriteFailed
                ELSE IF Len(bytes[1]) # 16 THEN WriteFailed
                ELSE Written(bytes[1])
          [] pt = "Null" -> Written(<<>>)

write_serialization_header(rec) ==
    InOrder(<< write_i32(rec.root_id), write_i32(rec.header_id),
               write_i32(rec.major_version), write_i32(rec.minor_version) >>)

write_binary_library(rec) ==
    InOrder(<< write_i32(rec.library_id), write_length_prefixed_string(rec.library_name) >>)

write_class_info(info) ==
    InOrder(<< write_i32(info.object_id), write_length_prefixed_string(info.name),
               write_i32(info.member_count) >>
            \o [i \in 1..Len(info.member_names) |->
                    write_length_prefixed_string(info.member_names[i])])

\* the `match info { ... }` that writes one AdditionalTypeInfo
write_additional_type_info(info) ==
    CASE info.ai = "Primitive" -> write_u8(PrimitiveType_as_u8(info.pt))
      [] info.ai = "SystemClass" -> write_length_prefixed_string(info.type_name)
      [] info.ai = "Class" ->
            InOrder(<< write_length_prefixed_string(info.type_name),
                       write_i32(info.library_id) >>)
      [] info.ai = "None" -> Written(<<>>)

write_member_type_info(info) ==
    InOrder([i \in 1..Len(info.binary_type_enums) |->
                write_u8(BinaryType_as_u8(info.binary_type_enums[i]))]
            \o [i \in 1..Len(info.additional_infos) |->
                write_additional_type_info(info.additional_infos[i])])

RECURSIVE encode(_)
RECURSIVE write_object_value(_)

\* `for val in values { self.write_object_value(val)?; }`
write_object_values(values) ==
    InOrder([i \in 1..Len(values) |-> write_object_value(values[i])])

write_class_with_members_and_types(rec) ==
    InOrder(<< write_class_info(rec.class_info),
               write_member_type_info(rec.member_type_info),
               write_i32(rec.library_id),
               write_object_values(rec.member_values) >>)

write_system_class_with_members_and_types(rec) ==
    InOrder(<< write_class_info(rec.class_info),
               write_member_type_info(rec.member_type_info),
               write_object_values(rec.member_values) >>)

write_system_class_with_members(rec) ==
    InOrder(<< write_class_info(rec.class_info),
               write_object_values(rec.member_values) >>)

write_class_with_members(rec) ==
    InOrder(<< write_class_info(rec.class_info), write_i32(rec.library_id),
               write_object_values(rec.member_values) >>)

write_class_with_id(rec) ==
    InOrder(<< write_i32(rec.object_id), write_i32(rec.metadata_id),
               write_object_values(rec.member_values) >>)

write_binary_array(rec) ==
    InOrder(<< write_i32(rec.object_id), write_u8(rec.binary_array_type_enum),
               write_i32(rec.rank) >>
            \o [i \in 1..Len(rec.lengths) |-> write_i32(rec.lengths[i])]
            \o (IF rec.lower_bounds = <<>> THEN <<>>
                ELSE [i \in 1..Len(rec.lower_bounds[1]) |->
                        write_i32(rec.lower_bounds[1][i])])
            \o << write_u8(BinaryType_as_u8(rec.type_enum)),
                  write_additional_type_info(rec.additional_type_info),
                  write_object_values(rec.element_values) >>)

\* write_object_value leaving a null to write_primitive_value
write_object_value_plain(val) ==
    IF val.ov = "Primitive" THEN write_primitive_value(val.val) ELSE encode(val.val)

write_object_value(val) ==
    IF val.ov = "Primitive"
    THEN IF val.val.pt = "Null" THEN write_u8(RecordType_as_u8("ObjectNull"))
         ELSE write_primitive_value(val.val)
    ELSE encode(val.val)

\* Encoder::encode
encode(record) ==
    LET t == record.t
        tag(name) == write_u8(RecordType_as_u8(name))
    IN  CASE t = "SerializationHeader" ->
                InOrder(<< tag("SerializedStreamHeader"),
                           write_serialization_header(record) >>)
          [] t = "BinaryLibrary" ->
                InOrder(<< tag("BinaryLibrary"), write_binary_library(record) >>)
          [] t = "ClassWithMembersAndTypes" ->
                InOrder(<< tag(t), write_class_with_members_and_types(record) >>)
          [] t = "SystemClassWithMembersAndTypes" ->
                InOrder(<< tag(t), write_system_class_with_members_and_types(record) >>)
          [] t = "SystemClassWithMembers" ->
                InOrder(<< tag(t), write_system_class_with_members(record) >>)
          [] t = "ClassWithMembers" ->
                InOrder(<< tag(t), write_class_with_members(record) >>)
          [] t = "ClassWithId" -> InOrder(<< tag(t), write_class_with_id(record) >>)
          [] t = "BinaryObjectString" ->
                InOrder(<< tag(t), write_i32(record.object_id),
                           write_length_prefixed_string(record.value) >>)
          [] t = "BinaryArray" -> InOrder(<< tag(t), write_binary_array(record) >>)
          [] t = "ArraySingleObject" ->
                InOrder(<< tag(t), write_i32(record.object_id), write_i32(record.length),
                           write_object_values(record.element_values) >>)
          [] t = "ArraySinglePrimitive" ->
                InOrder(<< tag(t), write_i32(record.object_id), write_i32(record.length),
                           write_u8(PrimitiveType_as_u8(record.primitive_type_enum)) >>
                        \o [i \in 1..Len(record.element_values) |->
                                write_primitive_value(record.element_values[i])])
          [] t = "ArraySingleString" ->
                InOrder(<< tag(t), write_i32(record.object_id), write_i32(record.length),
                           write_object_values(record.element_values) >>)
          [] t = "MemberPrimitiveTyped" ->
                InOrder(<< tag(t), write_u8(PrimitiveType_as_u8(record.primitive_type_enum)),
                           write_primitive_value(record.typed_value) >>)
          [] t = "MemberReference" -> InOrder(<< tag(t), write_i32(record.id_ref) >>)
          [] t = "ObjectNull" -> tag(t)
          [] t = "ObjectNullMultiple" ->
                InOrder(<< tag(t), write_i32(record.null_count) >>)
          [] t = "ObjectNullMultiple256" ->
                InOrder(<< tag(t), write_u8(record.null_count) >>)
          [] t = "MessageEnd" -> tag(t)

-----------------------------------------------------------------------------
(* interleaved.rs: serde_json values.  A Value is a record tagged by j.  A  *)
(* Number is PosInt (a u64), NegInt (a negative i64) or Float; the integers *)
(* are kept as their eight little-endian bytes, a Float as the bit pattern  *)
(* of the f64, or of the f32 it was widened from (widening a finite f32 and *)
(* narrowing it back is exact).  A string is the sequence of its UTF-8      *)
(* bytes; the strings the codec itself puts into a tree (record tags and    *)
(* the variant names serde writes for BinaryType, PrimitiveType and         *)
(* AdditionalTypeInfo) are kept by name.  A Map is the sequence of its      *)
(* entries in iteration order.                                              *)

JNull == [j |-> "null"]
JBool(b) == [j |-> "bool", b |-> b]
JNumber(n, bits) == [j |-> "number", n |-> n, bits |-> bits]
JString(s) == [j |-> "string", s |-> s]
JName(name) == [j |-> "string", name |-> name]
JArray(items) == [j |-> "array", items |-> items]
JObject(map) == [j |-> "object", map |-> map]

\* the UTF-8 bytes of the keys the projection uses
Key(s) ==
    CASE s = "$record" -> <<36, 114, 101, 99, 111, 114, 100>>
      [] s = "$type" -> <<36, 116, 121, 112, 101>>
      [] s = "$id" -> <<36, 105, 100>>
      [] s = "$values" -> <<36, 118, 97, 108, 117, 101, 115>>
      [] s = "$member_type_info" -> <<36, 109, 101, 109, 98, 101, 114, 95, 116, 121, 112, 101, 95, 105, 110, 102, 111>>
      [] s = "library_id" -> <<108, 105, 98, 114, 97, 114, 121, 95, 105, 100>>
      [] s = "object_id" -> <<111, 98, 106, 101, 99, 116, 95, 105, 100>>
      [] s = "metadata_id" -> <<109, 101, 116, 97, 100, 97, 116, 97, 95, 105, 100>>
      [] s = "value" -> <<118, 97, 108, 117, 101>>
      [] s = "id_ref" -> <<105, 100, 95, 114, 101, 102>>
      [] s = "null_count" -> <<110, 117, 108, 108, 95, 99, 111, 117, 110, 116>>
      [] s = "length" -> <<108, 101, 110, 103, 116, 104>>
      [] s = "primitive_type_enum" -> <<112, 114, 105, 109, 105, 116, 105, 118, 101, 95, 116, 121, 112, 101, 95, 101, 110, 117, 109>>
      [] s = "root_id" -> <<114, 111, 111, 116, 95, 105, 100>>
      [] s = "header_id" -> <<104, 101, 97, 100, 101, 114, 95, 105, 100>>
      [] s = "major_version" -> <<109, 97, 106, 111, 114, 95, 118, 101, 114, 115, 105, 111, 110>>
      [] s = "minor_version" -> <<109, 105, 110, 111, 114, 95, 118, 101, 114, 115, 105, 111, 110>>
      [] s = "library_name" -> <<108, 105, 98, 114, 97, 114, 121, 95, 110, 97, 109, 101>>
      [] s = "binary_array_type_enum" -> <<98, 105, 110, 97, 114, 121, 95, 97, 114, 114, 97, 121, 95, 116, 121, 112, 101, 95, 101, 110, 117, 109>>
      [] s = "rank" -> <<114, 97, 110, 107>>
      [] s = "lengths" -> <<108, 101, 110, 103, 116, 104, 115>>
      [] s = "lower_bounds" -> <<108, 111, 119, 101, 114, 95, 98, 111, 117, 110, 100, 115>>
      [] s = "type_enum" -> <<116, 121, 112, 101, 95, 101, 110, 117, 109>>
      [] s = "additional_type_info" -> <<97, 100, 100, 105, 116, 105, 111, 110, 97, 108, 95, 116, 121, 112, 101, 95, 105, 110, 102, 111>>
      [] s = "binary_type_enums" -> <<98, 105, 110, 97, 114, 121, 95, 116, 121, 112, 101, 95, 101, 110, 117, 109, 115>>
      [] s = "additional_infos" -> <<97, 100, 100, 105, 116, 105, 111, 110, 97, 108, 95, 105, 110, 102, 111, 115>>
      [] s = "Primitive" -> <<80, 114, 105, 109, 105, 116, 105, 118, 101>>
      [] s = "SystemClass" -> <<83, 121, 115, 116, 101, 109, 67, 108, 97, 115, 115>>
      [] s = "Class" -> <<67, 108, 97, 115, 115>>
      [] s = "type_name" -> <<116, 121, 112, 101, 95, 110, 97, 109, 101>>

Entry(key, val) == [key |-> key, val |-> val]

\* the order of String keys in a BTreeMap
RECURSIVE KeyLess(_, _)
KeyLess(a, b) ==
    IF b = <<>> THEN FALSE
    ELSE IF a = <<>> THEN TRUE
    ELSE IF a[1] # b[1] THEN a[1] < b[1]
    ELSE KeyLess(Tail(a), Tail(b))

\* Map::get
Map_get(map, key) ==
    IF \E i \in 1..Len(map) : map[i].key = key
    THEN <<map[CHOOSE i \in 1..Len(map) : map[i].key = key].val>>
    ELSE <<>>

\* Map::insert: a key already there keeps its place and takes the new value; a
\* new key goes to the end when the map keeps insertion order (serde_json's
\* preserve_order feature) and to its sorted place when it does not
Map_insert(map, key, val) ==
    IF Map_get(map, key) # <<>>
    THEN [i \in 1..Len(map) |-> IF map[i].key = key THEN Entry(key, val) ELSE map[i]]
    ELSE IF preserve_order THEN Append(map, Entry(key, val))
    ELSE SelectSeq(map, LAMBDA e : KeyLess(e.key, key)) \o <<Entry(key, val)>>
             \o SelectSeq(map, LAMBDA e : ~ KeyLess(e.key, key))

\* the entries of a json!({ .. }) literal, inserted in the order written
RECURSIVE Map_from(_, _)
Map_from(entries, map) ==
    IF entries = <<>> THEN map
    ELSE Map_from(Tail(entries), Map_insert(map, Head(entries).key, Head(entries).val))

json(entries) == JObject(Map_from(entries, <<>>))

\* json!(n) of an i32, i16, i8, u8 or u16: Number::from, sign-extended to 64 bits
json_int(n) ==
    JNumber(IF n < 0 THEN "NegInt" ELSE "PosInt",
            ToLE32(n) \o (IF n < 0 THEN <<255, 255, 255, 255>> ELSE <<0, 0, 0, 0>>))

\* json!(f) of a float given by its bits: Number::from_f64 is None for NaN and
\* the infinities (all exponent bits set), and json! then yields Null
json_float(b) ==
    IF Len(b) = 8 /\ b[8] % 128 = 127 /\ b[7] \div 16 = 15 THEN JNull
    ELSE IF Len(b) = 4 /\ b[4] % 128 = 127 /\ b[3] >= 128 THEN JNull
    ELSE JNumber("Float", b)

\* Value::as_i64, as_u64, as_f64, as_bool, as_str
as_i64(v) ==
    IF v.j = "number" /\ v.n # "Float" /\ (v.n = "NegInt" \/ v.bits[8] < 128)
    THEN <<v.bits>> ELSE <<>>

as_u64(v) == IF v.j = "number" /\ v.n = "PosInt" THEN <<v.bits>> ELSE <<>>

\* (an integer Number would be converted; no tree here holds one where a float is read)
as_f64(v) ==
    IF v.j # "number" THEN <<>>
    ELSE CASE v.n = "Float" -> <<v.bits>>

as_bool(v) == IF v.j = "bool" THEN <<v.b>> ELSE <<>>

as_str(v) == IF v.j = "string" /\ "s" \in DOMAIN v THEN <<v.s>> ELSE <<>>

\* as_str of a string the codec wrote by name; free text matches no name
as_name(v) == IF v.j = "string" /\ "name" \in DOMAIN v THEN <<v.name>> ELSE <<>>

\* the `as i32` cast of a 64-bit integer: its low four bytes
as_i32(bits) == FromLE32(SubSeq(bits, 1, 4))

\* Option::unwrap_or
unwrap_or(opt, default) == IF opt = <<>> THEN default ELSE opt[1]

\* char::to_string: the UTF-8 bytes of a char below U+0100
char_to_string(c) == IF c < 128 THEN <<c>> ELSE <<192 + (c \div 64), 128 + (c % 64)>>

\* s.chars().next() of such a string
first_char(s) ==
    IF s = <<>> THEN <<>>
    ELSE IF s[1] < 128 THEN <<s[1]>>
    ELSE <<(s[1] - 192) * 64 + (s[2] - 128)>>

\* primitive_value_to_json
primitive_value_to_json(val) ==
    CASE val.pt = "Boolean" -> JBool(val.v[1] # 0)
      [] val.pt \in {"Byte", "Int16", "Int32", "SByte", "UInt16"} -> json_int(val.v[1])
      [] val.pt = "Char" -> JString(char_to_string(val.v[1]))
      [] val.pt \in {"Decimal", "String"} -> JString(val.v)
      [] val.pt \in {"Double", "Single"} -> json_float(val.v)
      [] val.pt \in {"Int64", "TimeSpan"} ->
            JNumber(IF val.v[8] >= 128 THEN "NegInt" ELSE "PosInt", val.v)
      [] val.pt \in {"DateTime", "UInt64"} -> JNumber("PosInt", val.v)
      [] val.pt = "UInt32" -> JNumber("PosInt", val.v \o <<0, 0, 0, 0>>)
      [] val.pt = "Null" -> JNull

\* json!(x) of the types that derive Serialize: an enum without data is its
\* name, a variant with data an object of one key, a struct an object of its fields
additional_type_info_to_value(info) ==
    CASE info.ai = "Primitive" -> json(<<Entry(Key("Primitive"), JName(info.pt))>>)
      [] info.ai = "SystemClass" ->
            json(<<Entry(Key("SystemClass"), JString(info.type_name))>>)
      [] info.ai = "Class" ->
            json(<<Entry(Key("Class"),
                         json(<<Entry(Key("type_name"), JString(info.type_name)),
                                Entry(Key("library_id"), json_int(info.library_id))>>))>>)
      [] info.ai = "None" -> JName("None")

member_type_info_to_value(info) ==
    json(<<Entry(Key("binary_type_enums"),
                 JArray([i \in 1..Len(info.binary_type_enums) |->
                            JName(info.binary_type_enums[i])])),
           Entry(Key("additional_infos"),
                 JArray([i \in 1..Len(info.additional_infos) |->
                            additional_type_info_to_value(info.additional_infos[i])]))>>)

i32s_to_value(v) == JArray([i \in 1..Len(v) |-> json_int(v[i])])

RECURSIVE record_to_value(_)
RECURSIVE object_value_to_json(_)
RECURSIVE insert_members(_, _, _)

\* the `for (name, val) in member_names.iter().zip(member_values.iter())` loop
insert_members(map, member_names, member_values) ==
    IF member_names = <<>> \/ member_values = <<>> THEN map
    ELSE insert_members(Map_insert(map, Head(member_names),
                                   object_value_to_json(Head(member_values))),
                        Tail(member_names), Tail(member_values))

\* class_to_value; library_id is an Option
class_to_value(name, object_id, member_names, member_values, library_id) ==
    JObject(insert_members(
        Map_from(<<Entry(Key("$type"), JString(name)), Entry(Key("$id"), json_int(object_id))>>
                 \o (IF library_id # <<>>
                     THEN <<Entry(Key("library_id"), json_int(library_id[1]))>>
                     ELSE <<>>),
                 <<>>),
        member_names, member_values))

\* `if let Value::Object(ref mut map) = val { map.insert(..); .. }`
with_entries(val, entries) == JObject(Map_from(entries, val.map))

object_values_to_json(values) ==
    JArray([i \in 1..Len(values) |-> object_value_to_json(values[i])])

\* record_to_value; it returns Some for every record
record_to_value(record) ==
    CASE record.t = "SerializationHeader" ->
            json(<<Entry(Key("$record"), JName("SerializationHeader")),
                   Entry(Key("root_id"), json_int(record.root_id)),
                   Entry(Key("header_id"), json_int(record.header_id)),
                   Entry(Key("major_version"), json_int(record.major_version)),
                   Entry(Key("minor_version"), json_int(record.minor_version))>>)
      [] record.t = "BinaryLibrary" ->
            json(<<Entry(Key("$record"), JName("BinaryLibrary")),
                   Entry(Key("library_id"), json_int(record.library_id)),
                   Entry(Key("library_name"), JString(record.library_name))>>)
      [] record.t = "ClassWithMembersAndTypes" ->
            with_entries(class_to_value(record.class_info.name, record.class_info.object_id,
                                        record.class_info.member_names,
                                        record.member_values, <<record.library_id>>),
                         <<Entry(Key("$record"), JName("ClassWithMembersAndTypes")),
                           Entry(Key("$member_type_info"),
                                 member_type_info_to_value(record.member_type_info))>>)
      [] record.t = "SystemClassWithMembersAndTypes" ->
            with_entries(class_to_value(record.class_info.name, record.class_info.object_id,
                                        record.class_info.member_names,
                                        record.member_values, <<>>),
                         <<Entry(Key("$record"), JName("SystemClassWithMembersAndTypes")),
                           Entry(Key("$member_type_info"),
                                 member_type_info_to_value(record.member_type_info))>>)
      [] record.t = "SystemClassWithMembers" ->
            with_entries(class_to_value(record.class_info.name, record.class_info.object_id,
                                        record.class_info.member_names,
                                        record.member_values, <<>>),
                         <<Entry(Key("$record"), JName("SystemClassWithMembers"))>>)
      [] record.t = "ClassWithMembers" ->
            with_entries(class_to_value(record.class_info.name, record.class_info.object_id,
                                        record.class_info.member_names,
                                        record.member_values, <<record.library_id>>),
                         <<Entry(Key("$record"), JName("ClassWithMembers"))>>)
      [] record.t = "ClassWithId" ->
            json(<<Entry(Key("$record"), JName("ClassWithId")),
                   Entry(Key("object_id"), json_int(record.object_id)),
                   Entry(Key("metadata_id"), json_int(record.metadata_id)),
                   Entry(Key("$values"), object_values_to_json(record.member_values))>>)
      [] record.t = "BinaryObjectString" ->
            json(<<Entry(Key("$record"), JName("BinaryObjectString")),
                   Entry(Key("object_id"), json_int(record.object_id)),
                   Entry(Key("value"), JString(record.value))>>)
      [] record.t = "BinaryArray" ->
            json(<<Entry(Key("$record"), JName("BinaryArray")),
                   Entry(Key("object_id"), json_int(record.object_id)),
                   Entry(Key("binary_array_type_enum"),
                         json_int(record.binary_array_type_enum)),
                   Entry(Key("rank"), json_int(record.rank)),
                   Entry(Key("lengths"), i32s_to_value(record.lengths)),
                   Entry(Key("lower_bounds"),
                         IF record.lower_bounds = <<>> THEN JNull
                         ELSE i32s_to_value(record.lower_bounds[1])),
                   Entry(Key("type_enum"), JName(record.type_enum)),
                   Entry(Key("additional_type_info"),
                         additional_type_info_to_value(record.additional_type_info)),
                   Entry(Key("$values"), object_values_to_json(record.element_values))>>)
      [] record.t \in {"ArraySingleObject", "ArraySingleString"} ->
            json(<<Entry(Key("$record"), JName(record.t)),
                   Entry(Key("object_id"), json_int(record.object_id)),
                   Entry(Key("length"), json_int(record.length)),
                   Entry(Key("$values"), object_values_to_json(record.element_values))>>)
      [] record.t = "ArraySinglePrimitive" ->
            json(<<Entry(Key("$record"), JName("ArraySinglePrimitive")),
                   Entry(Key("object_id"), json_int(record.object_id)),
                   Entry(Key("length"), json_int(record.length)),
                   Entry(Key("primitive_type_enum"), JName(record.primitive_type_enum)),
                   Entry(Key("$values"),
                         JArray([i \in 1..Len(record.element_values) |->
                                    primitive_value_to_json(record.element_values[i])]))>>)
      [] record.t = "MemberPrimitiveTyped" ->
            json(<<Entry(Key("$record"), JName("MemberPrimitiveTyped")),
                   Entry(Key("primitive_type_enum"), JName(record.primitive_type_enum)),
                   Entry(Key("value"), primitive_value_to_json(record.typed_value))>>)
      [] record.t = "MemberReference" ->
            json(<<Entry(Key("$record"), JName("MemberReference")),
                   Entry(Key("id_ref"), json_int(record.id_ref))>>)
      [] record.t \in {"ObjectNullMultiple", "ObjectNullMultiple256"} ->
            json(<<Entry(Key("$record"), JName(record.t)),
                   Entry(Key("null_count"), json_int(record.null_count))>>)
      [] record.t \in {"ObjectNull", "MessageEnd"} ->
            json(<<Entry(Key("$record"), JName(record.t))>>)

\* object_value_to_json
object_value_to_json(val) ==
    IF val.ov = "Primitive" THEN primitive_value_to_json(val.val)
    ELSE record_to_value(val.val)

\* to_interleaved
to_interleaved(recs) == JArray([i \in 1..Len(recs) |-> record_to_value(recs[i])])

\* serde_json::from_value of the types that derive Deserialize, on the values
\* json! made of them above (the `.ok()?` on a value of another shape is not
\* modelled: record_to_value never writes one under these keys)
additional_type_info_from_value(v) ==
    IF v.j = "string" THEN AtiNone
    ELSE CASE Map_get(v.map, Key("Primitive")) # <<>> ->
                AtiPrimitive(Map_get(v.map, Key("Primitive"))[1].name)
           [] Map_get(v.map, Key("SystemClass")) # <<>> ->
                AtiSystemClass(Map_get(v.map, Key("SystemClass"))[1].s)
           [] Map_get(v.map, Key("Class")) # <<>> ->
                AtiClass(Map_get(Map_get(v.map, Key("Class"))[1].map, Key("type_name"))[1].s,
                         as_i32(as_i64(Map_get(Map_get(v.map, Key("Class"))[1].map,
                                               Key("library_id"))[1])[1]))

member_type_info_from_value(v) ==
    MemberTypeInfo(
        [i \in 1..Len(Map_get(v.map, Key("binary_type_enums"))[1].items) |->
            Map_get(v.map, Key("binary_type_enums"))[1].items[i].name],
        [i \in 1..Len(Map_get(v.map, Key("additional_infos"))[1].items) |->
            additional_type_info_from_value(
                Map_get(v.map, Key("additional_infos"))[1].items[i])])

i32s_from_value(v) == [i \in 1..Len(v.items) |-> as_i32(as_i64(v.items[i])[1])]

\* `obj.get(key)?.as_i64()?`
get_i64(obj, key) ==
    IF Map_get(obj, key) = <<>> THEN <<>> ELSE as_i64(Map_get(obj, key)[1])

\* `obj.get(key)?.as_i64()? as i32` under a key that record_to_value wrote an i32 to
get_i32(obj, key) == as_i32(get_i64(obj, key)[1])

\* json_to_primitive_value; the narrowing casts keep the low bytes of the 64-bit
\* integer (`as u8`: the first, `as i16` and `as u16`: the first two, `as u32`:
\* the first four)
json_to_primitive_value(v, t) ==
    CASE t = "Boolean" -> Prim("Boolean", <<IF unwrap_or(as_bool(v), FALSE) THEN 1 ELSE 0>>)
      [] t = "Byte" -> Prim("Byte", <<IF as_i64(v) = <<>> THEN 0 ELSE as_i64(v)[1][1]>>)
      [] t = "UInt16" ->
            Prim("UInt16", <<IF as_u64(v) = <<>> THEN 0 ELSE FromLE16U(as_u64(v)[1])>>)
      [] t = "UInt32" ->
            Prim("UInt32", IF as_u64(v) = <<>> THEN <<0, 0, 0, 0>> ELSE SubSeq(as_u64(v)[1], 1, 4))
      [] t = "Char" ->
            Prim("Char", IF as_str(v) = <<>> \/ as_str(v)[1] = <<>> THEN <<0>>
                         ELSE first_char(as_str(v)[1]))
      [] t = "Decimal" -> Prim("Decimal", unwrap_or(as_str(v), <<48>>))
      [] t = "Double" -> Prim("Double", unwrap_or(as_f64(v), <<0, 0, 0, 0, 0, 0, 0, 0>>))
      [] t = "Int16" -> Prim("Int16", <<IF as_i64(v) = <<>> THEN 0 ELSE FromLE16(as_i64(v)[1])>>)
      [] t = "Int32" -> Prim("Int32", <<IF as_i64(v) = <<>> THEN 0 ELSE as_i32(as_i64(v)[1])>>)
      [] t = "Int64" -> Prim("Int64", unwrap_or(as_i64(v), <<0, 0, 0, 0, 0, 0, 0, 0>>))
      [] t = "SByte" -> Prim("SByte", <<IF as_i64(v) = <<>> THEN 0
                            ELSE IF as_i64(v)[1][1] >= 128 THEN as_i64(v)[1][1] - 256
                            ELSE as_i64(v)[1][1]>>)
      [] t = "Single" -> Prim("Single", unwrap_or(as_f64(v), <<0, 0, 0, 0>>))
      [] t = "TimeSpan" -> Prim("TimeSpan", unwrap_or(as_i64(v), <<0, 0, 0, 0, 0, 0, 0, 0>>))
      [] t = "DateTime" ->
            Prim("DateTime", IF as_u64(v) # <<>> THEN as_u64(v)[1]
                             ELSE unwrap_or(as_i64(v), <<0, 0, 0, 0, 0, 0, 0, 0>>))
      [] t = "UInt64" ->
            Prim("UInt64", IF as_u64(v) # <<>> THEN as_u64(v)[1]
                           ELSE unwrap_or(as_i64(v), <<0, 0, 0, 0, 0, 0, 0, 0>>))
      [] t = "String" -> Prim("String", unwrap_or(as_str(v), <<>>))
      [] t = "Null" -> PrimNull

\* the "fallback for primitive/basic types" of json_to_object_value
json_to_basic_value(v) ==
    CASE v.j = "bool" -> Prim("Boolean", <<IF v.b THEN 1 ELSE 0>>)
      [] v.j = "number" /\ as_i64(v) # <<>> -> Prim("Int32", <<as_i32(as_i64(v)[1])>>)
      [] v.j = "number" /\ as_i64(v) = <<>> /\ as_u64(v) # <<>> ->
            Prim("UInt32", SubSeq(as_u64(v)[1], 1, 4))
      [] v.j = "number" /\ v.n = "Float" -> Prim("Double", v.bits)
      [] v.j = "string" -> Prim("String", unwrap_or(as_str(v), <<>>))
      [] OTHER -> PrimNull

\* a value of InterleavedDeserializer's `&mut self` methods, with the
\* metadata_registry as the call leaves it
Ret(v, reg) == [v |-> v, reg |-> reg]

AndThen(r, F(_, _)) == F(r.v, r.reg)

\* value_to_class_info, of the object's map
value_to_class_info(obj) ==
    ClassInfo(get_i32(obj, Key("$id")),
              as_str(Map_get(obj, Key("$type"))[1])[1],
              Len(SelectSeq(obj, LAMBDA e : (e.key = <<>> \/ e.key[1] # 36)
                                             /\ e.key # Key("library_id"))),
              [i \in 1..Len(SelectSeq(obj, LAMBDA e : (e.key = <<>> \/ e.key[1] # 36)
                                                       /\ e.key # Key("library_id"))) |->
                  SelectSeq(obj, LAMBDA e : (e.key = <<>> \/ e.key[1] # 36)
                                            /\ e.key # Key("library_id"))[i].key])

RECURSIVE value_to_record(_, _)
RECURSIVE value_to_record_of(_, _, _)
RECURSIVE json_to_object_value(_, _)
RECURSIVE json_to_object_values(_, _, _)
RECURSIVE json_to_typed_values(_, _, _, _, _)
RECURSIVE json_to_element_values(_, _, _, _, _)
RECURSIVE value_to_member_values(_, _, _, _)
RECURSIVE value_to_member_values_typed(_, _, _, _, _, _)

\* json_to_object_value
json_to_object_value(reg, v) ==
    AndThen(value_to_record(reg, v), LAMBDA record, reg2 :
        IF record # <<>> THEN Ret(OvRecord(record[1]), reg2)
        ELSE Ret(OvPrimitive(json_to_basic_value(v)), reg2))

\* `match bt { Primitive => if let Primitive(p_type) = add_info { .. } else { .. }, _ => .. }`
json_to_typed_value(reg, v, bt, add_info) ==
    IF bt = "Primitive" /\ add_info.ai = "Primitive"
    THEN Ret(OvPrimitive(json_to_primitive_value(v, add_info.pt)), reg)
    ELSE json_to_object_value(reg, v)

\* `.iter().map(|v| self.json_to_object_value(v)).collect()`
json_to_object_values(reg, vals, acc) ==
    IF vals = <<>> THEN Ret(acc, reg)
    ELSE AndThen(json_to_object_value(reg, Head(vals)), LAMBDA val, reg2 :
                 json_to_object_values(reg2, Tail(vals), Append(acc, val)))

\* the loop of the ClassWithId arm with the registered MemberTypeInfo left
\* aside: every value is typed by its JSON shape
json_to_typed_values_by_shape(reg, vals, mti, i, acc) ==
    json_to_object_values(reg, vals, acc)

\* the `for (i, v) in vals.iter().enumerate()` loop of the ClassWithId arm
json_to_typed_values(reg, vals, mti, i, acc) ==
    IF i > Len(vals) THEN Ret(acc, reg)
    ELSE AndThen(json_to_typed_value(reg, vals[i], mti.binary_type_enums[i],
                                     mti.additional_infos[i]),
                 LAMBDA val, reg2 :
                     json_to_typed_values(reg2, vals, mti, i + 1, Append(acc, val)))

\* the `.map(|v| match type_enum { .. })` of the BinaryArray arm
json_to_element_values(reg, vals, type_enum, additional_type_info, acc) ==
    IF vals = <<>> THEN Ret(acc, reg)
    ELSE AndThen(json_to_typed_value(reg, Head(vals), type_enum, additional_type_info),
                 LAMBDA val, reg2 :
                     json_to_element_values(reg2, Tail(vals), type_enum,
                                            additional_type_info, Append(acc, val)))

\* value_to_member_values
value_to_member_values(reg, obj, member_names, acc) ==
    IF member_names = <<>> THEN Ret(acc, reg)
    ELSE IF Map_get(obj, Head(member_names)) = <<>>
         THEN value_to_member_values(reg, obj, Tail(member_names), acc)
    ELSE AndThen(json_to_object_value(reg, Map_get(obj, Head(member_names))[1]),
                 LAMBDA val, reg2 :
                     value_to_member_values(reg2, obj, Tail(member_names),
                                            Append(acc, val)))

\* value_to_member_values_typed
value_to_member_values_typed(reg, obj, member_names, member_type_info, i, acc) ==
    IF i > Len(member_names) THEN Ret(acc, reg)
    ELSE IF Map_get(obj, member_names[i]) = <<>>
         THEN value_to_member_values_typed(reg, obj, member_names, member_type_info,
                                           i + 1, acc)
    ELSE AndThen(json_to_typed_value(reg, Map_get(obj, member_names[i])[1],
                                     member_type_info.binary_type_enums[i],
                                     member_type_info.additional_infos[i]),
                 LAMBDA val, reg2 :
                     value_to_member_values_typed(reg2, obj, member_names,
                                                  member_type_info, i + 1,
                                                  Append(acc, val)))

\* Some(record) of a record made from member or element values
SomeRecord(r, Make(_)) == Ret(<<Make(r.v)>>, r.reg)

\* the `match record_type` of value_to_record; the keys read with `?` are there
\* whenever record_to_value wrote the object, except library_id in a class
\* object, which a member of that name replaces
value_to_record_of(reg, obj, record_type) ==
    CASE record_type = "SerializationHeader" ->
            Ret(<<[t |-> "SerializationHeader", root_id |-> get_i32(obj, Key("root_id")),
                   header_id |-> get_i32(obj, Key("header_id")),
                   major_version |-> get_i32(obj, Key("major_version")),
                   minor_version |-> get_i32(obj, Key("minor_version"))]>>, reg)
      [] record_type = "BinaryLibrary" ->
            Ret(<<[t |-> "BinaryLibrary", library_id |-> get_i32(obj, Key("library_id")),
                   library_name |-> as_str(Map_get(obj, Key("library_name"))[1])[1]]>>, reg)
      [] record_type = "ClassWithMembersAndTypes" ->
            IF get_i64(obj, Key("library_id")) = <<>> THEN Ret(<<>>, reg)
            ELSE SomeRecord(
                     value_to_member_values_typed(
                         MapInsert(reg, value_to_class_info(obj).object_id,
                                   member_type_info_from_value(
                                       Map_get(obj, Key("$member_type_info"))[1])),
                         obj, value_to_class_info(obj).member_names,
                         member_type_info_from_value(
                             Map_get(obj, Key("$member_type_info"))[1]),
                         1, <<>>),
                     LAMBDA member_values :
                         [t |-> "ClassWithMembersAndTypes",
                          class_info |-> value_to_class_info(obj),
                          member_type_info |-> member_type_info_from_value(
                                                   Map_get(obj, Key("$member_type_info"))[1]),
                          library_id |-> get_i32(obj, Key("library_id")),
                          member_values |-> member_values])
      [] record_type = "SystemClassWithMembersAndTypes" ->
            SomeRecord(
                value_to_member_values_typed(
                    MapInsert(reg, value_to_class_info(obj).object_id,
                              member_type_info_from_value(
                                  Map_get(obj, Key("$member_type_info"))[1])),
                    obj, value_to_class_info(obj).member_names,
                    member_type_info_from_value(Map_get(obj, Key("$member_type_info"))[1]),
                    1, <<>>),
                LAMBDA member_values :
                    [t |-> "SystemClassWithMembersAndTypes",
                     class_info |-> value_to_class_info(obj),
                     member_type_info |-> member_type_info_from_value(
                                              Map_get(obj, Key("$member_type_info"))[1]),
                     member_values |-> member_values])
      [] record_type = "SystemClassWithMembers" ->
            SomeRecord(
                value_to_member_values(reg, obj, value_to_class_info(obj).member_names, <<>>),
                LAMBDA member_values :
                    [t |-> "SystemClassWithMembers", class_info |-> value_to_class_info(obj),
                     member_values |-> member_values])
      [] record_type = "ClassWithMembers" ->
            IF get_i64(obj, Key("library_id")) = <<>> THEN Ret(<<>>, reg)
            ELSE SomeRecord(
                     value_to_member_values(reg, obj, value_to_class_info(obj).member_names,
                                            <<>>),
                     LAMBDA member_values :
                         [t |-> "ClassWithMembers", class_info |-> value_to_class_info(obj),
                          library_id |-> get_i32(obj, Key("library_id")),
                          member_values |-> member_values])
      [] record_type = "ClassWithId" ->
            SomeRecord(
                IF get_i32(obj, Key("metadata_id")) \in DOMAIN reg
                THEN json_to_typed_values(reg, Map_get(obj, Key("$values"))[1].items,
                                          reg[get_i32(obj, Key("metadata_id"))], 1, <<>>)
                ELSE json_to_object_values(reg, Map_get(obj, Key("$values"))[1].items, <<>>),
                LAMBDA member_values :
                    [t |-> "ClassWithId", object_id |-> get_i32(obj, Key("object_id")),
                     metadata_id |-> get_i32(obj, Key("metadata_id")),
                     member_values |-> member_values])
      [] record_type = "BinaryObjectString" ->
            Ret(<<[t |-> "BinaryObjectString", object_id |-> get_i32(obj, Key("object_id")),
                   value |-> as_str(Map_get(obj, Key("value"))[1])[1]]>>, reg)
      [] record_type = "BinaryArray" ->
            SomeRecord(
                json_to_element_values(
                    reg, Map_get(obj, Key("$values"))[1].items,
                    Map_get(obj, Key("type_enum"))[1].name,
                    additional_type_info_from_value(
                        Map_get(obj, Key("additional_type_info"))[1]),
                    <<>>),
                LAMBDA element_values :
                    [t |-> "BinaryArray", object_id |-> get_i32(obj, Key("object_id")),
                     binary_array_type_enum |->
                         get_i64(obj, Key("binary_array_type_enum"))[1][1],
                     rank |-> get_i32(obj, Key("rank")),
                     lengths |-> i32s_from_value(Map_get(obj, Key("lengths"))[1]),
                     lower_bounds |->
                         IF Map_get(obj, Key("lower_bounds"))[1].j = "null" THEN <<>>
                         ELSE <<i32s_from_value(Map_get(obj, Key("lower_bounds"))[1])>>,
                     type_enum |-> Map_get(obj, Key("type_enum"))[1].name,
                     additional_type_info |->
                         additional_type_info_from_value(
                             Map_get(obj, Key("additional_type_info"))[1]),
                     element_values |-> element_values])
      [] record_type \in {"ArraySingleObject", "ArraySingleString"} ->
            SomeRecord(
                json_to_object_values(reg, Map_get(obj, Key("$values"))[1].items, <<>>),
                LAMBDA element_values :
                    [t |-> record_type, object_id |-> get_i32(obj, Key("object_id")),
                     length |-> get_i32(obj, Key("length")),
                     element_values |-> element_values])
      [] record_type = "ArraySinglePrimitive" ->
            Ret(<<[t |-> "ArraySinglePrimitive", object_id |-> get_i32(obj, Key("object_id")),
                   length |-> get_i32(obj, Key("length")),
                   primitive_type_enum |-> Map_get(obj, Key("primitive_type_enum"))[1].name,
                   element_values |->
                       [i \in 1..Len(Map_get(obj, Key("$values"))[1].items) |->
                           json_to_primitive_value(
                               Map_get(obj, Key("$values"))[1].items[i],
                               Map_get(obj, Key("primitive_type_enum"))[1].name)]]>>, reg)
      [] record_type = "MemberPrimitiveTyped" ->
            Ret(<<[t |-> "MemberPrimitiveTyped",
                   primitive_type_enum |-> Map_get(obj, Key("primitive_type_enum"))[1].name,
                   typed_value |->
                       json_to_primitive_value(
                           Map_get(obj, Key("value"))[1],
                           Map_get(obj, Key("primitive_type_enum"))[1].name)]>>, reg)
      [] record_type = "MemberReference" ->
            Ret(<<[t |-> "MemberReference", id_ref |-> get_i32(obj, Key("id_ref"))]>>, reg)
      [] record_type = "ObjectNull" -> Ret(<<[t |-> "ObjectNull"]>>, reg)
      [] record_type = "ObjectNullMultiple" ->
            Ret(<<[t |-> "ObjectNullMultiple",
                   null_count |-> get_i32(obj, Key("null_count"))]>>, reg)
      [] record_type = "ObjectNullMultiple256" ->
            Ret(<<[t |-> "ObjectNullMultiple256",
                   null_count |-> get_i64(obj, Key("null_count"))[1][1]]>>, reg)
      [] record_type = "MessageEnd" -> Ret(<<[t |-> "MessageEnd"]>>, reg)
      [] OTHER -> Ret(<<>>, reg)

\* value_to_record: None for a value that is no object or has no "$record" string
value_to_record(reg, v) ==
    IF v.j # "object" THEN Ret(<<>>, reg)
    ELSE IF Map_get(v.map, Key("$record")) = <<>> THEN Ret(<<>>, reg)
    ELSE IF as_name(Map_get(v.map, Key("$record"))[1]) = <<>> THEN Ret(<<>>, reg)
    ELSE value_to_record_of(reg, v.map, as_name(Map_get(v.map, Key("$record"))[1])[1])

\* InterleavedDeserializer::deserialize: the records of the array's values, and
\* nothing for a value that is no array
RECURSIVE deserialize_loop(_, _, _)
deserialize_loop(reg, arr, recs) ==
    IF arr = <<>> THEN recs
    ELSE AndThen(value_to_record(reg, Head(arr)), LAMBDA record, reg2 :
                 deserialize_loop(reg2, Tail(arr), recs \o record))

deserialize(value) ==
    IF value.j = "array" THEN deserialize_loop(<<>>, value.items, <<>>) ELSE <<>>

\* from_interleaved
from_interleaved(value) == deserialize(value)

-----------------------------------------------------------------------------
(* The streams the decoder is run on.  A stream is the encoding of up to   *)
(* MaxSetup records that install registry entries, followed by one record   *)
(* of any kind and a MessageEnd; or up to MaxCutSetup such records and one   *)
(* record of any kind, cut off after any number of its bytes.               *)

MaxSetup == 2
MaxCutSetup == 1
MaxMembers == 1
MaxElems == 2

\* all sequences over S of length at most n
RECURSIVE SeqsUpTo(_, _)
SeqsUpTo(S, n) ==
    IF n = 0 THEN {<<>>}
    ELSE LET shorter == SeqsUpTo(S, n - 1)
         IN  shorter \cup {Append(q, x) : q \in {r \in shorter : Len(r) = n - 1}, x \in S}

Name(c) == <<c>>

Hdr == [t |-> "SerializationHeader", root_id |-> 1, header_id |-> -1,
        major_version |-> 1, minor_version |-> 0]
Lib == [t |-> "BinaryLibrary", library_id |-> 2, library_name |-> Name(76)]
End == [t |-> "MessageEnd"]
Str == [t |-> "BinaryObjectString", object_id |-> 3, value |-> <<104, 105>>]
Ref == [t |-> "MemberReference", id_ref |-> 3]
Null1 == [t |-> "ObjectNull"]
NullMany(n) == [t |-> "ObjectNullMultiple", null_count |-> n]
NullMany256(n) == [t |-> "ObjectNullMultiple256", null_count |-> n]
\* (the value field of MemberPrimitiveTyped is called typed_value here: TLC cannot
\* put records into one set whose equally named fields hold different kinds of value)
Typed(pt, v) ==
    [t |-> "MemberPrimitiveTyped", primitive_type_enum |-> pt, typed_value |-> Prim(pt, v)]

\* a member of a typed class: its BinaryType, AdditionalTypeInfo and value
Member(bt, ati, val) == [bt |-> bt, ati |-> ati, val |-> val]

MemberKinds ==
    { Member("Primitive", AtiPrimitive("Int32"), OvPrimitive(Prim("Int32", <<42>>))),
      Member("Primitive", AtiPrimitive("Boolean"), OvPrimitive(Prim("Boolean", <<1>>))),
      Member("String", AtiNone, OvRecord(Str)),
      Member("Object", AtiNone, OvRecord(Null1)),
      Member("PrimitiveArray", AtiPrimitive("Int32"), OvRecord(Ref)) }

MemberNames(n) == [i \in 1..n |-> Name(96 + i)]

ClassWithMembersAndTypes(id, ms) ==
    [t |-> "ClassWithMembersAndTypes",
     class_info |-> ClassInfo(id, Name(67), Len(ms), MemberNames(Len(ms))),
     member_type_info |-> MemberTypeInfo([i \in 1..Len(ms) |-> ms[i].bt],
                                         [i \in 1..Len(ms) |-> ms[i].ati]),
     library_id |-> 2,
     member_values |-> [i \in 1..Len(ms) |-> ms[i].val]]

SystemClassWithMembersAndTypes(id, ms) ==
    [t |-> "SystemClassWithMembersAndTypes",
     class_info |-> ClassInfo(id, Name(83), Len(ms), MemberNames(Len(ms))),
     member_type_info |-> MemberTypeInfo([i \in 1..Len(ms) |-> ms[i].bt],
                                         [i \in 1..Len(ms) |-> ms[i].ati]),
     member_values |-> [i \in 1..Len(ms) |-> ms[i].val]]

ClassWithMembers(id, recs) ==
    [t |-> "ClassWithMembers",
     class_info |-> ClassInfo(id, Name(85), Len(recs), MemberNames(Len(recs))),
     library_id |-> 2,
     member_values |-> [i \in 1..Len(recs) |-> OvRecord(recs[i])]]

SystemClassWithMembers(id, recs) ==
    [t |-> "SystemClassWithMembers",
     class_info |-> ClassInfo(id, Name(86), Len(recs), MemberNames(Len(recs))),
     member_values |-> [i \in 1..Len(recs) |-> OvRecord(recs[i])]]

ClassWithId(id, metadata_id, vals) ==
    [t |-> "ClassWithId", object_id |-> id, metadata_id |-> metadata_id,
     member_values |-> vals]

ArraySingle(t, length, recs) ==
    [t |-> t, object_id |-> 4, length |-> length,
     element_values |-> [i \in 1..Len(recs) |-> OvRecord(recs[i])]]

ArraySinglePrimitive(length, pt, vals) ==
    [t |-> "ArraySinglePrimitive", object_id |-> 4, length |-> length,
     primitive_type_enum |-> pt, element_values |-> [i \in 1..Len(vals) |-> Prim(pt, vals[i])]]

BinaryArray(ate, rank, lengths, lower_bounds, bt, ati, vals) ==
    [t |-> "BinaryArray", object_id |-> 4, binary_array_type_enum |-> ate, rank |-> rank,
     lengths |-> lengths, lower_bounds |-> lower_bounds, type_enum |-> bt,
     additional_type_info |-> ati, element_values |-> vals]

\* a class record whose ClassInfo announces a negative member count
NegativeMemberCount ==
    [t |-> "SystemClassWithMembers", class_info |-> ClassInfo(1, Name(86), -1, <<>>),
     member_values |-> <<>>]

\* the records a stream may start with
SetupTrees ==
    { Hdr, Lib,
      SystemClassWithMembersAndTypes(1,
          <<Member("Primitive", AtiPrimitive("Int32"), OvPrimitive(Prim("Int32", <<42>>)))>>),
      ClassWithMembers(1, <<Ref>>) }

\* the physical elements of an object array
ElementRecords == { Str, Ref, Null1, NullMany256(2), NullMany(2) }

StringElementRecords == { Str, Null1, NullMany256(2) }

\* how many logical slots a physical element fills
Slots(r) == IF r.t \in {"ObjectNullMultiple", "ObjectNullMultiple256"}
            THEN r.null_count ELSE 1

RECURSIVE SlotsOf(_)
SlotsOf(recs) == IF recs = <<>> THEN 0 ELSE Slots(Head(recs)) + SlotsOf(Tail(recs))

SubjectTrees ==
    { Hdr, Lib, End, Str, Ref, Null1, NullMany(2), NullMany256(2), Typed("Int32", <<7>>) }
    \cup { ClassWithMembersAndTypes(1, ms) : ms \in SeqsUpTo(MemberKinds, MaxMembers) }
    \cup { SystemClassWithMembersAndTypes(1, ms) : ms \in SeqsUpTo(MemberKinds, MaxMembers) }
    \cup { ClassWithMembers(1, <<Ref>>), SystemClassWithMembers(1, <<Null1>>) }
    \cup { ClassWithId(5, 1, <<OvPrimitive(Prim("Int32", <<99>>))>>),
           ClassWithId(5, 1, <<OvRecord(Str)>>) }
    \cup { ArraySingle("ArraySingleObject", SlotsOf(recs), recs) :
                recs \in SeqsUpTo(ElementRecords, MaxElems) }
    \cup { ArraySingle("ArraySingleString", SlotsOf(recs), recs) :
                recs \in SeqsUpTo(StringElementRecords, MaxElems) }
    \cup { ArraySingle("ArraySingleObject", 2, <<Ref, NullMany256(3)>>),
           ArraySingle("ArraySingleObject", 1, <<NullMany(2)>>),
           ArraySingle("ArraySingleObject", 2, <<Null1>>),
           ArraySingle("ArraySingleObject", 1, <<NullMany(-1), Str>>),
           ArraySingle("ArraySingleObject", -1, <<>>),
           ArraySingle("ArraySingleString", -1, <<>>),
           ArraySinglePrimitive(2, "Int32", <<<<1>>, <<2>>>>),
           ArraySinglePrimitive(-1, "Int32", <<>>),
           NegativeMemberCount }
    \cup { BinaryArray(0, 1, <<2>>, <<>>, "Object", AtiNone, <<OvRecord(Str), OvRecord(Null1)>>),
           BinaryArray(2, 2, <<1, 2>>, <<>>, "String", AtiNone, <<OvRecord(NullMany256(2))>>),
           BinaryArray(3, 1, <<2>>, <<<<5>>>>, "Primitive", AtiPrimitive("Int32"),
                       <<OvPrimitive(Prim("Int32", <<1>>)), OvPrimitive(Prim("Int32", <<2>>))>>),
           BinaryArray(0, 1, <<1>>, <<>>, "Object", AtiNone, <<OvRecord(NullMany(2))>>),
           BinaryArray(0, -1, <<>>, <<>>, "Object", AtiNone, <<>>),
           BinaryArray(0, 1, <<-1>>, <<>>, "Object", AtiNone, <<>>),
           BinaryArray(2, 2, <<-1, -1>>, <<>>, "Object", AtiNone, <<OvRecord(Null1)>>) }

-----------------------------------------------------------------------------
(* Well-formed streams ([MS-NRBF], as the specification's P1 names them).   *)

IsClass(r) == r.t \in {"ClassWithMembersAndTypes", "SystemClassWithMembersAndTypes",
                       "ClassWithMembers", "SystemClassWithMembers"}
IsTypedClass(r) == r.t \in {"ClassWithMembersAndTypes", "SystemClassWithMembersAndTypes"}
IsObjectArray(r) == r.t \in {"ArraySingleObject", "ArraySingleString", "BinaryArray"}
IsNullRun(r) == r.t \in {"ObjectNullMultiple", "ObjectNullMultiple256"}

\* the records nested directly in a record
Children(r) ==
    LET vals == IF IsClass(r) \/ r.t = "ClassWithId" THEN r.member_values
                ELSE IF IsObjectArray(r) THEN r.element_values
                ELSE <<>>
        recs == SelectSeq(vals, LAMBDA v : v.ov = "Record")
    IN  [i \in 1..Len(recs) |-> recs[i].val]

RECURSIVE Flatten(_)
\* a sequence of records and everything nested in them, in stream order
Flatten(recs) ==
    IF recs = <<>> THEN <<>>
    ELSE <<Head(recs)>> \o Flatten(Children(Head(recs))) \o Flatten(Tail(recs))

\* the object id a record defines, if it defines one
DefinedId(r) ==
    IF IsClass(r) THEN <<r.class_info.object_id>>
    ELSE IF r.t \in {"ClassWithId", "BinaryObjectString", "ArraySingleObject",
                     "ArraySingleString", "ArraySinglePrimitive", "BinaryArray"}
         THEN <<r.object_id>>
    ELSE <<>>

RECURSIVE DefinedIds(_)
DefinedIds(recs) ==
    IF recs = <<>> THEN <<>> ELSE DefinedId(Head(recs)) \o DefinedIds(Tail(recs))

\* a member value agrees with the declared type of the member
FitsType(v, bt, ati) ==
    IF bt = "Primitive"
    THEN /\ v.ov = "Primitive"
         /\ ati.ai = "Primitive"
         /\ ati.pt \notin {"Null", "String"}
         /\ v.val.pt = ati.pt
    ELSE /\ v.ov = "Record"
         /\ ~ IsNullRun(v.val)
         /\ (bt = "PrimitiveArray") => (ati.ai = "Primitive")

\* the shape of one record, apart from the records nested in it
WellFormedShape(r) ==
    CASE IsTypedClass(r) ->
            /\ r.class_info.member_count = Len(r.member_values)
            /\ Len(r.class_info.member_names) = Len(r.member_values)
            /\ Len(r.member_type_info.binary_type_enums) = Len(r.member_values)
            /\ \A i \in 1..Len(r.member_values) :
                  FitsType(r.member_values[i], r.member_type_info.binary_type_enums[i],
                           r.member_type_info.additional_infos[i])
      [] r.t \in {"ClassWithMembers", "SystemClassWithMembers"} ->
            /\ r.class_info.member_count = Len(r.member_values)
            /\ Len(r.class_info.member_names) = Len(r.member_values)
            /\ \A i \in 1..Len(r.member_values) :
                  r.member_values[i].ov = "Record" /\ ~ IsNullRun(r.member_values[i].val)
      [] r.t \in {"ArraySingleObject", "ArraySingleString"} ->
            /\ \A i \in 1..Len(r.element_values) :
                  /\ r.element_values[i].ov = "Record"
                  /\ IsNullRun(r.element_values[i].val) =>
                        r.element_values[i].val.null_count >= 1
            /\ r.length = SlotsOf(Children(r))
      [] r.t = "ArraySinglePrimitive" ->
            /\ r.length = Len(r.element_values)
            /\ r.primitive_type_enum \notin {"Null", "String"}
      [] r.t = "BinaryArray" ->
            /\ r.rank >= 1
            /\ r.rank = Len(r.lengths)
            /\ \A i \in 1..r.rank : r.lengths[i] >= 0
            /\ r.binary_array_type_enum \in 0..5
            /\ (r.binary_array_type_enum \in 3..5) = (r.lower_bounds # <<>>)
            /\ (r.lower_bounds # <<>>) => Len(r.lower_bounds[1]) = r.rank
            /\ \A i \in 1..Len(r.element_values) :
                  IF r.element_values[i].ov = "Record" /\ IsNullRun(r.element_values[i].val)
                  THEN r.type_enum # "Primitive" /\ r.element_values[i].val.null_count >= 1
                  ELSE FitsType(r.element_values[i], r.type_enum, r.additional_type_info)
            /\ product(r.lengths, 1)
                 = <<Len(r.element_values) - Len(Children(r)) + SlotsOf(Children(r))>>
      [] OTHER -> TRUE

\* the class record a ClassWithId at position i of the flattened stream refers to:
\* the latest earlier class record with that object id
ClassFor(flat, i) ==
    LET js == {j \in 1..(i - 1) : IsClass(flat[j])
                                  /\ flat[j].class_info.object_id = flat[i].metadata_id}
        latest == CHOOSE j \in js : \A k \in js : k <= j
    IN  IF js = {} THEN <<>> ELSE <<flat[latest]>>

WellFormedClassWithId(flat, i) ==
    LET c == ClassFor(flat, i)
        vals == flat[i].member_values
    IN  /\ c # <<>>
        /\ Len(vals) = c[1].class_info.member_count
        /\ \A m \in 1..Len(vals) :
              IF IsTypedClass(c[1])
              THEN FitsType(vals[m], c[1].member_type_info.binary_type_enums[m],
                            c[1].member_type_info.additional_infos[m])
              ELSE vals[m].ov = "Record" /\ ~ IsNullRun(vals[m].val)

\* a whole stream: header first, MessageEnd last, every record of a well-formed
\* shape, object ids unique, every reference and library id resolved
WellFormedStream(recs) ==
    LET flat == Flatten(recs)
        ids == DefinedIds(flat)
        n == Len(recs)
    IN  /\ n >= 2
        /\ recs[1].t = "SerializationHeader"
        /\ recs[n].t = "MessageEnd"
        /\ \A i \in 2..(n - 1) :
              recs[i].t \notin {"SerializationHeader", "MessageEnd", "MemberReference",
                               "ObjectNull", "ObjectNullMultiple", "ObjectNullMultiple256"}
        /\ \A i \in 1..Len(flat) :
              /\ WellFormedShape(flat[i])
              /\ (flat[i].t = "ClassWithId") => WellFormedClassWithId(flat, i)
              /\ (flat[i].t = "MemberReference") =>
                    \E k \in 1..Len(ids) : ids[k] = flat[i].id_ref
              /\ (flat[i].t = "ClassWithMembersAndTypes" \/ flat[i].t = "ClassWithMembers") =>
                    \E j \in 1..(i - 1) : /\ flat[j].t = "BinaryLibrary"
                                           /\ flat[j].library_id = flat[i].library_id
        /\ \A a, b \in 1..Len(ids) : (ids[a] = ids[b]) => (a = b)

\* the bytes of a sequence of records, as the encoder writes them
RECURSIVE EncodeAll(_)
EncodeAll(recs) ==
    IF recs = <<>> THEN <<>> ELSE encode(Head(recs)).out \o EncodeAll(Tail(recs))

NoProbe == [op |-> "none"]
NoCall == [k |-> "none", e |-> NoError, hit_eof |-> FALSE]
Fresh == [pos |-> 0, reg |-> <<>>, lib |-> <<>>, off |-> 0]

\* nothing has been decoded, encoded or projected yet, in whatever build
NothingRead ==
    /\ pos = 0
    /\ metadata_registry = <<>>
    /\ library_registry = <<>>
    /\ offset = 0
    /\ last = NoCall
    /\ before = Fresh
    /\ records = <<>>
    /\ writer = <<>>
    /\ encoded = 0
    /\ encode_failed = FALSE
    /\ int_step = "decode"
    /\ interleaved_json = JNull
    /\ interleaved_reconstructed_records = <<>>
    /\ int_reconstructed_data = <<>>
    /\ int_encode_failed = FALSE

\* the same in a build without arithmetic overflow checks
Unread == overflow_checks = FALSE /\ NothingRead

Fresh_start == Unread /\ probe = NoProbe

\* a stream is either whole, with or without its MessageEnd, or cut in its last record
Init ==
    /\ \E setup \in SeqsUpTo(SetupTrees, MaxSetup), subject \in SubjectTrees :
         \/ /\ Len(setup) <= MaxCutSetup
            /\ \E cut \in 0..Len(encode(subject).out) :
                  /\ trees = Append(setup, subject)
                  /\ source = EncodeAll(setup) \o SubSeq(encode(subject).out, 1, cut)
         \/ /\ trees = setup \o <<subject, End>>
            /\ source = EncodeAll(trees)
    /\ reader_drains \in BOOLEAN
    /\ preserve_order = FALSE
    /\ Fresh_start

\* the decoder as the state holds it
Decoder == [pos |-> pos, reg |-> metadata_registry, lib |-> library_registry,
            off |-> offset, hit_eof |-> FALSE]

\* one call of Decoder::decode_next by the caller, who keeps the record
DecodeNext ==
    /\ last.k # "panic"
    /\ LET r == decode_next(Decoder)
       IN  /\ last' = [k |-> IF r.k = "ok" THEN (IF r.v = <<>> THEN "eof" ELSE "record")
                             ELSE r.k,
                       e |-> r.e, hit_eof |-> r.st.hit_eof]
           /\ records' = IF r.k = "ok" /\ r.v # <<>> THEN Append(records, r.v[1])
                         ELSE records
           /\ pos' = r.st.pos
           /\ metadata_registry' = r.st.reg
           /\ library_registry' = r.st.lib
           /\ offset' = r.st.off
    /\ before' = [pos |-> pos, reg |-> metadata_registry, lib |-> library_registry,
                  off |-> offset]
    /\ UNCHANGED <<source, trees, reader_drains, overflow_checks, writer, encoded,
                   encode_failed, probe, int_vars>>

\* Encoder::encode on an encoder that remembers the record it wrote last and
\* writes nothing for a record equal to it
Encode_remembering ==
    /\ last.k = "eof"
    /\ encoded < Len(records)
    /\ ~ encode_failed
    /\ writer' = IF encoded >= 1 /\ records[encoded + 1] = records[encoded]
                 THEN writer
                 ELSE writer \o encode(records[encoded + 1]).out
    /\ encode_failed' = ~ encode(records[encoded + 1]).ok
    /\ encoded' = encoded + 1
    /\ UNCHANGED <<source, trees, reader_drains, overflow_checks, pos, metadata_registry,
                   library_registry, offset, last, before, records, probe, int_vars>>

\* one call of Encoder::encode, on the next record the caller holds; the caller
\* encodes once its decode loop has reached the end of the stream
Encode ==
    /\ last.k = "eof"
    /\ encoded < Len(records)
    /\ ~ encode_failed
    /\ LET w == encode(records[encoded + 1])
       IN  /\ writer' = writer \o w.out
           /\ encode_failed' = ~ w.ok
    /\ encoded' = encoded + 1
    /\ UNCHANGED <<source, trees, reader_drains, overflow_checks, pos, metadata_registry,
                   library_registry, offset, last, before, records, probe, int_vars>>

Next == DecodeNext \/ Encode

Spec == Init /\ [][Next]_vars

-----------------------------------------------------------------------------
(* The interleaved reconstruction check of examples/round_trip.rs, on whole *)
(* streams: decode to the end, project the records to the interleaved tree, *)
(* read the records back from it and encode them.                           *)

\* the little-endian bits of some floats: 1.5, a NaN, 1.0f32 and +infinity (f32)
Double_1_5 == <<0, 0, 0, 0, 0, 0, 248, 63>>
Double_NaN == <<0, 0, 0, 0, 0, 0, 248, 127>>
Single_1 == <<0, 0, 128, 63>>
Single_Inf == <<0, 0, 128, 127>>

\* a class with one member of a primitive type
PrimitiveMember(pt, v) ==
    SystemClassWithMembersAndTypes(1,
        <<Member("Primitive", AtiPrimitive(pt), OvPrimitive(Prim(pt, v)))>>)

\* records whose values the projection has to carry through JSON
InterleavedSubjects ==
    { PrimitiveMember("Double", Double_1_5), PrimitiveMember("Double", Double_NaN),
      PrimitiveMember("Single", Single_1), PrimitiveMember("Single", Single_Inf),
      PrimitiveMember("Int64", <<255, 255, 255, 255, 255, 255, 255, 255>>),
      PrimitiveMember("UInt64", <<0, 0, 0, 0, 0, 0, 0, 128>>),
      PrimitiveMember("UInt32", <<255, 255, 255, 255>>),
      PrimitiveMember("UInt16", <<65535>>), PrimitiveMember("Int16", <<-300>>),
      PrimitiveMember("SByte", <<-5>>), PrimitiveMember("Byte", <<255>>),
      PrimitiveMember("Char", <<65>>), PrimitiveMember("Char", <<200>>),
      PrimitiveMember("Boolean", <<0>>),
      PrimitiveMember("Decimal", hex_encode([i \in 1..16 |-> 16 * i - 1])),
      ArraySinglePrimitive(2, "Double", <<Double_1_5, Double_1_5>>),
      ArraySinglePrimitive(1, "UInt16", <<<<515>>>>),
      Typed("Int64", <<1, 2, 3, 4, 5, 6, 7, 8>>),
      [SystemClassWithMembers(1, <<Str, Null1>>)
           EXCEPT !.class_info.member_names = <<Name(98), Name(97)>>],
      [SystemClassWithMembers(1, <<Str>>)
           EXCEPT !.class_info.member_names = <<Key("library_id")>>],
      [ClassWithMembers(1, <<Str>>)
           EXCEPT !.class_info.member_names = <<Key("library_id")>>],
      [SystemClassWithMembers(1, <<Str>>)
           EXCEPT !.class_info.member_names = <<<<36, 120>>>>],
      [SystemClassWithMembers(1, <<Str, Null1>>)
           EXCEPT !.class_info.member_names = <<Name(97), Name(97)>>],
      SystemClassWithMembers(1, <<Str, Null1>>) }

\* a typed class with one primitive member and a ClassWithId that refers to it,
\* one after the other or both nested in a third record
TypedPairs ==
    { <<PrimitiveMember(m.pt, m.v), ClassWithId(5, 1, <<OvPrimitive(m)>>)>> :
          m \in { Prim("Int16", <<-300>>), Prim("Byte", <<255>>), Prim("SByte", <<-5>>),
                  Prim("UInt16", <<65535>>), Prim("UInt32", <<255, 255, 255, 255>>),
                  Prim("Int64", <<1, 2, 3, 4, 5, 6, 7, 8>>), Prim("Boolean", <<1>>),
                  Prim("Char", <<65>>), Prim("Double", Double_1_5),
                  Prim("Single", Single_1), Prim("Int32", <<42>>) } }
    \cup { <<ClassWithMembers(7, <<PrimitiveMember("Int16", <<9>>),
                                   ClassWithId(5, 1, <<OvPrimitive(Prim("Int16", <<8>>))>>)>>)>> }

InitInterleaved ==
    /\ \/ \E setup \in SeqsUpTo(SetupTrees, MaxSetup),
             subject \in SubjectTrees \cup InterleavedSubjects :
            trees = setup \o <<subject, End>>
       \/ \E pair \in TypedPairs : trees = pair \o <<End>>
    /\ source = EncodeAll(trees)
    /\ reader_drains = TRUE
    /\ preserve_order \in BOOLEAN
    /\ Fresh_start

\* round_trip.rs, `let interleaved_json = to_interleaved(&records)`, once the
\* decode loop has come to the end of the stream
ToInterleaved ==
    /\ last.k = "eof"
    /\ int_step = "decode"
    /\ interleaved_json' = to_interleaved(records)
    /\ int_step' = "projected"
    /\ UNCHANGED <<source, trees, reader_drains, overflow_checks, pos, metadata_registry,
                   library_registry, offset, last, before, records, writer, encoded,
                   encode_failed, probe, preserve_order,
                   interleaved_reconstructed_records, int_reconstructed_data,
                   int_encode_failed>>

\* `let interleaved_reconstructed_records = from_interleaved(interleaved_json)`
FromInterleaved ==
    /\ int_step = "projected"
    /\ interleaved_reconstructed_records' = from_interleaved(interleaved_json)
    /\ int_step' = "reconstructed"
    /\ UNCHANGED <<source, trees, reader_drains, overflow_checks, pos, metadata_registry,
                   library_registry, offset, last, before, records, writer, encoded,
                   encode_failed, probe, preserve_order, interleaved_json,
                   int_reconstructed_data, int_encode_failed>>

\* `for record in &interleaved_reconstructed_records { int_encoder.encode(record)?; }`
\* and the read of the file written
EncodeInterleaved ==
    /\ int_step = "reconstructed"
    /\ LET w == InOrder([i \in 1..Len(interleaved_reconstructed_records) |->
                            encode(interleaved_reconstructed_records[i])])
       IN  /\ int_reconstructed_data' = w.out
           /\ int_encode_failed' = ~ w.ok
    /\ int_step' = "encoded"
    /\ UNCHANGED <<source, trees, reader_drains, overflow_checks, pos, metadata_registry,
                   library_registry, offset, last, before, records, writer, encoded,
                   encode_failed, probe, preserve_order, interleaved_json,
                   interleaved_reconstructed_records>>

NextInterleaved == DecodeNext \/ ToInterleaved \/ FromInterleaved \/ EncodeInterleaved

SpecInterleaved == InitInterleaved /\ [][NextInterleaved]_vars

-----------------------------------------------------------------------------
(* C1  Byte-exact round trip.                                               *)

\* the source holds a whole well-formed stream
WellFormed == WellFormedStream(trees) /\ source = EncodeAll(trees)

\* the caller has reached end-of-stream and encoded every record it was given
RoundTripDone == last.k = "eof" /\ encoded = Len(records) /\ ~ encode_failed

\* C1: on a well-formed stream no decode_next call fails, and once every record
\* returned before end-of-stream has been encoded, in order, the writer holds
\* exactly the bytes of the source.
C1_RoundTrip ==
    WellFormed =>
        /\ last.k \in {"none", "record", "eof"}
        /\ ~ encode_failed
        /\ RoundTripDone => writer = source

-----------------------------------------------------------------------------
(* C2  Interleaved round trip.                                              *)

\* the interleaved reconstruction check has run to its end
InterleavedDone == int_step = "encoded"

\* C2: on a well-formed stream, once the records decoded from it have been
\* projected with to_interleaved, read back with from_interleaved and encoded in
\* order, no encode call has failed, the bytes written are exactly the bytes of
\* the source, and the records read back are as many as the records decoded,
\* each of the same variant and with the same field values as the decoded
\* record in its place.
C2_InterleavedRoundTrip ==
    (WellFormed /\ InterleavedDone) =>
        /\ ~ int_encode_failed
        /\ int_reconstructed_data = source
        /\ Len(interleaved_reconstructed_records) = Len(records)
        /\ \A i \in 1..Len(records) :
              /\ interleaved_reconstructed_records[i].t = records[i].t
              /\ interleaved_reconstructed_records[i] = records[i]

-----------------------------------------------------------------------------
(* C3  Null-run expansion.                                                  *)

\* the bytes of the first n records of the stream
BytesOf(n) == Len(EncodeAll(SubSeq(trees, 1, n)))

\* the last decode_next call returned a record, read from exactly the bytes of
\* the record of the stream with the same index
DecodedInPlace ==
    /\ last.k = "record"
    /\ Len(records) <= Len(trees)
    /\ before.pos = BytesOf(Len(records) - 1)
    /\ pos = BytesOf(Len(records))

LastRecord == records[Len(records)]
LastTree == trees[Len(records)]

\* the length an array record announces
AnnouncedLength(r) ==
    IF r.t = "BinaryArray" THEN product(r.lengths, 1)[1] ELSE r.length

\* what the physical elements of an array stand for: a null run for null_count
\* nulls, an ObjectNull for one, anything else for itself
RECURSIVE Expanded(_)
Expanded(vals) ==
    IF vals = <<>> THEN <<>>
    ELSE LET v == Head(vals)
         IN  (IF v.ov = "Record" /\ IsNullRun(v.val) THEN Nulls(v.val.null_count)
              ELSE IF v.ov = "Record" /\ v.val.t = "ObjectNull" THEN <<OvNull>>
              ELSE <<v>>) \o Expanded(Tail(vals))

\* C3: every array in a record that decode_next returned has exactly as many
\* entries as its length field (or the product of its lengths) says and holds no
\* null record; and when the record was read from an array of the stream, its
\* entries are the physical elements with every null run replaced by null_count
\* nulls and every ObjectNull by one.
C3_NullRunExpansion ==
    (last.k = "record") =>
        /\ \A i \in 1..Len(Flatten(<<LastRecord>>)) :
              LET r == Flatten(<<LastRecord>>)[i]
              IN  IsObjectArray(r) =>
                    /\ Len(r.element_values) = AnnouncedLength(r)
                    /\ \A j \in 1..Len(r.element_values) :
                          (r.element_values[j].ov = "Record") =>
                             /\ ~ IsNullRun(r.element_values[j].val)
                             /\ r.element_values[j].val.t # "ObjectNull"
        /\ (DecodedInPlace /\ IsObjectArray(LastTree)) =>
              LastRecord.element_values = Expanded(LastTree.element_values)

-----------------------------------------------------------------------------
(* C4  Registry consult.                                                    *)

\* the index of the record of the stream at whose first byte the last call began
StartsAt(i) == i \in 1..Len(trees) /\ before.pos = BytesOf(i - 1)

\* the last call began at a ClassWithId whose metadata id K the registry held
\* with the type information of a typed class record
ConsultsTyped(i) ==
    /\ last.k # "none"
    /\ StartsAt(i)
    /\ trees[i].t = "ClassWithId"
    /\ trees[i].metadata_id \in DOMAIN before.reg
    /\ before.reg[trees[i].metadata_id].member_type_info # <<>>

\* a member value as the registered layout wants it at index m
ReadAsDeclared(v, meta, m) ==
    LET mti == meta.member_type_info[1]
    IN  IF mti.binary_type_enums[m] = "Primitive"
        THEN v.ov = "Primitive" /\ v.val.pt = mti.additional_infos[m].pt
        ELSE v.ov = "Record"

-----------------------------------------------------------------------------
(* The tag conversions of records.rs, applied to every byte.                *)

\* the decoder and the encoder at rest, on an empty source
Idle ==
    /\ trees = <<>>
    /\ preserve_order = FALSE
    /\ Fresh_start

InitTags == Idle /\ source = <<>> /\ reader_drains = TRUE

\* what a caller of try_from gets: the variant and its discriminant, or the error
Tried(op, b, variant, discriminant, e) ==
    [op |-> op, b |-> b, ok |-> variant # <<>>,
     discriminant |-> IF variant # <<>> THEN discriminant ELSE -1,
     e |-> IF variant # <<>> THEN NoError ELSE e]

TryRecordType ==
    /\ \E b \in Byte :
         LET v == RecordType_try_from(b)
         IN  probe' = Tried("RecordType", b, v, RecordType_as_u8(v[1]), InvalidRecordType(b))
    /\ UNCHANGED <<source, trees, reader_drains, overflow_checks, pos, metadata_registry,
                   library_registry, offset, last, before, records, writer, encoded,
                   encode_failed, int_vars>>

TryBinaryType ==
    /\ \E b \in Byte :
         LET v == BinaryType_try_from(b)
         IN  probe' = Tried("BinaryType", b, v, BinaryType_as_u8(v[1]), InvalidBinaryType(b))
    /\ UNCHANGED <<source, trees, reader_drains, overflow_checks, pos, metadata_registry,
                   library_registry, offset, last, before, records, writer, encoded,
                   encode_failed, int_vars>>

TryPrimitiveType ==
    /\ \E b \in Byte :
         LET v == PrimitiveType_try_from(b)
         IN  probe' = Tried("PrimitiveType", b, v, PrimitiveType_as_u8(v[1]),
                            InvalidPrimitiveType(b))
    /\ UNCHANGED <<source, trees, reader_drains, overflow_checks, pos, metadata_registry,
                   library_registry, offset, last, before, records, writer, encoded,
                   encode_failed, int_vars>>

NextTags == TryRecordType \/ TryBinaryType \/ TryPrimitiveType

SpecTags == InitTags /\ [][NextTags]_vars

(* C5  Tag exhaustiveness.                                                  *)

\* the bytes of assigned tags, as the specification lists them
RecordTags == (0..17) \cup {21, 22}
BinaryTags == 0..7
PrimitiveTags == {1, 2, 3} \cup (5..18)

\* C5: for every byte b, each try_from succeeds exactly on the assigned tags of
\* its enumeration, the variant it returns has discriminant b, and a rejected
\* byte comes back in the error of that enumeration.
C5_TagExhaustive ==
    LET tags == CASE probe.op = "RecordType" -> RecordTags
                  [] probe.op = "BinaryType" -> BinaryTags
                  [] probe.op = "PrimitiveType" -> PrimitiveTags
        rejected == CASE probe.op = "RecordType" -> InvalidRecordType(probe.b)
                      [] probe.op = "BinaryType" -> InvalidBinaryType(probe.b)
                      [] probe.op = "PrimitiveType" -> InvalidPrimitiveType(probe.b)
    IN  (probe.op # "none") =>
            /\ probe.ok = (probe.b \in tags)
            /\ probe.ok => probe.discriminant = probe.b
            /\ (~ probe.ok) => probe.e = rejected

\* RecordType::try_from has rejected the unassigned tag 18
C5_Witness == probe.op = "RecordType" /\ probe.b = 18 /\ ~ probe.ok

-----------------------------------------------------------------------------
(* The variable-length integers of length-prefixed strings: written by the  *)
(* encoder and read back, and read from arbitrary bytes.                    *)

MaxSmallVlq == 200
MaxVlqLen == 6

\* the values written: the small ones and those around every change of length
VlqValues ==
    (0..MaxSmallVlq)
    \cup {16383, 16384, 2097151, 2097152, 268435455, 268435456, 1879048192, MaxI32}

\* the bytes arbitrary inputs are made of
VlqBytes == {0, 7, 127, 128, 255}

InitVlq ==
    /\ Idle
    /\ source \in SeqsUpTo(VlqBytes, MaxVlqLen)
    /\ reader_drains \in BOOLEAN

\* write_variable_length_int(x) on a fresh encoder; the bytes written, followed
\* by whatever the stream goes on with, become the source of a decoder
WriteVlq ==
    /\ probe.op = "none"
    /\ source = <<>>
    /\ \E x \in VlqValues, rest \in {<<>>, <<255>>} :
         LET w == write_variable_length_int(x)
         IN  /\ writer' = w.out
             /\ source' = w.out \o rest
             /\ probe' = [op |-> "written", x |-> x]
    /\ UNCHANGED <<trees, reader_drains, overflow_checks, pos, metadata_registry,
                   library_registry, offset, last, before, records, encoded,
                   encode_failed, int_vars>>

\* read_variable_length_int at the start of the source
ReadVlq ==
    /\ probe.op \in {"none", "written"}
    /\ LET r == read_variable_length_int(Decoder)
       IN  /\ probe' = [op |-> "read", written |-> probe.op = "written",
                         x |-> IF probe.op = "written" THEN probe.x ELSE 0,
                         k |-> r.k, v |-> IF r.k = "ok" THEN r.v ELSE 0, e |-> r.e]
           /\ pos' = r.st.pos
           /\ offset' = r.st.off
    /\ UNCHANGED <<source, trees, reader_drains, overflow_checks, metadata_registry,
                   library_registry, last, before, records, writer, encoded,
                   encode_failed, int_vars>>

NextVlq == WriteVlq \/ ReadVlq

SpecVlq == InitVlq /\ [][NextVlq]_vars

(* C6  Variable-length-int round trip.                                      *)

\* C6: reading the bytes that write_variable_length_int(x) wrote, 0 <= x < 2^31,
\* returns x and stops right after the last byte written.
C6_VlqRoundTrip ==
    (probe.op = "read" /\ probe.written) =>
        /\ probe.k = "ok"
        /\ probe.v = probe.x
        /\ pos = Len(writer)

\* the five-byte encoding of 2^31 - 1 has been written and read back
C6_Witness ==
    /\ probe.op = "read"
    /\ probe.written
    /\ probe.x = MaxI32
    /\ Len(writer) = 5
    /\ Len(source) = 6

(* C7  Variable-length-int bound.                                           *)

\* the first n bytes of the source are there and all have the high bit set
Continues(n) == Len(source) >= n /\ \A i \in 1..n : source[i] >= 128

\* the source holds an encoding of n bytes: n - 1 bytes with the high bit set
\* and one with the high bit clear
EndsAt(n) == Continues(n - 1) /\ Len(source) >= n /\ source[n] < 128

\* the low seven bits of the first n bytes, each shifted by seven more
RECURSIVE Accumulated(_)
Accumulated(n) ==
    IF n = 0 THEN 0 ELSE Accumulated(n - 1) + (source[n] % 128) * (2 ^ (7 * (n - 1)))

\* C7: an encoding of one to five bytes is accepted, the read stopping after its
\* last byte (with the accumulated value, where that fits 32 bits); the read
\* fails as too long exactly when the first five bytes all ask for another one,
\* without consuming a sixth; it returns a value in no other case, a source that
\* ends before the encoding does being an I/O error.
C7_VlqBound ==
    (probe.op = "read") =>
        /\ \A n \in 1..5 :
              EndsAt(n) =>
                 /\ probe.k = "ok"
                 /\ pos = n
                 /\ (n < 5 \/ source[5] < 8) => probe.v = Accumulated(n)
        /\ (probe.k = "err" /\ probe.e.msg = "Variable length int too long") = Continues(5)
        /\ Continues(5) => pos = 5
        /\ (probe.k = "ok") => \E n \in 1..5 : EndsAt(n)
        /\ (probe.k = "err" /\ ~ Continues(5)) => probe.e = Io
        /\ probe.k # "panic"

\* six bytes that all ask for more were read: the call failed after the fifth
C7_Witness ==
    /\ probe.op = "read"
    /\ Len(source) = 6
    /\ Continues(6)
    /\ probe.k = "err"
    /\ pos = 5

-----------------------------------------------------------------------------
(* C8  End-of-stream versus truncation.                                     *)

\* C8: decode_next returns end-of-stream only when it began with the source
\* exhausted; a call that began with bytes left and ran out of them further on,
\* be it at the tag byte of a member value or of an array element, returns an
\* error: no record, no end-of-stream.
C8_EofOnlyAtBoundary ==
    /\ (last.k = "eof") => before.pos = Len(source)
    /\ (last.hit_eof /\ before.pos < Len(source)) => last.k = "err"

\* the source ended where the tag byte of a nested value was due
C8_Witness ==
    /\ last.k = "err"
    /\ last.hit_eof
    /\ before.pos < Len(source)
    /\ last.e.msg = "Expected record for object value"

-----------------------------------------------------------------------------
(* C9  Registries on failure.                                               *)

\* the registries as the records of a sequence install them, in stream order
RECURSIVE InstalledClasses(_)
InstalledClasses(flat) ==
    IF flat = <<>> THEN <<>>
    ELSE LET r == flat[Len(flat)]
             earlier == InstalledClasses(SubSeq(flat, 1, Len(flat) - 1))
         IN  IF IsClass(r)
             THEN MapInsert(earlier, r.class_info.object_id,
                     ClassInfoWithTypes(r.class_info,
                        IF IsTypedClass(r) THEN <<r.member_type_info>> ELSE <<>>,
                        IF r.t \in {"ClassWithMembersAndTypes", "ClassWithMembers"}
                        THEN <<r.library_id>> ELSE <<>>))
             ELSE earlier

RECURSIVE InstalledLibraries(_)
InstalledLibraries(flat) ==
    IF flat = <<>> THEN <<>>
    ELSE LET r == flat[Len(flat)]
             earlier == InstalledLibraries(SubSeq(flat, 1, Len(flat) - 1))
         IN  IF r.t = "BinaryLibrary"
             THEN MapInsert(earlier, r.library_id, r.library_name)
             ELSE earlier

\* C9: when a decode_next call returns an error, the two registries hold exactly
\* what the records returned by the calls before it (and the records nested in
\* them) installed: the record that failed has left nothing.
C9_RegistriesOnFailure ==
    (last.k = "err") =>
        /\ metadata_registry = InstalledClasses(Flatten(records))
        /\ library_registry = InstalledLibraries(Flatten(records))

-----------------------------------------------------------------------------
(* C10  Malformed lengths.                                                  *)

\* a record that announces a negative member count, length or rank
NegativeLength(r) ==
    \/ IsClass(r) /\ r.class_info.member_count < 0
    \/ r.t \in {"ArraySingleObject", "ArraySingleString", "ArraySinglePrimitive"}
          /\ r.length < 0
    \/ r.t = "BinaryArray" /\ (r.rank < 0 \/ \E i \in 1..Len(r.lengths) : r.lengths[i] < 0)

\* C10: a decode_next call that begins at a record announcing a negative member
\* count, array length, rank or dimension returns an error: it does not panic
\* and returns no record.
C10_MalformedLengths ==
    \A i \in 1..Len(trees) :
        (last.k # "none" /\ StartsAt(i) /\ NegativeLength(trees[i])
            /\ Len(source) >= BytesOf(i))
        => last.k = "err"

-----------------------------------------------------------------------------
(* C11  Missing metadata.                                                   *)

\* the nine bytes after position p are a ClassWithId tag, an object id and a
\* metadata id
ClassWithIdAt(p) == p + 9 <= Len(source) /\ source[p + 1] = 1

MetadataIdAt(p) == FromLE32(SubSeq(source, p + 6, p + 9))

\* the decoder as it stands, about to read at position p (a nested decode_next
\* is such a call: the same reader and the same registries)
DecoderAt(p) == [Decoder EXCEPT !.pos = p]

\* C11: a decode_next call, top-level or nested, that meets a ClassWithId whose
\* metadata id is not a key of metadata_registry fails with the Custom error
\* naming that id, having consumed the tag, the object id and the metadata id
\* and nothing more, and leaves both registries as they were.
C11_MissingMetadata ==
    \A p \in 0..Len(source) :
        (ClassWithIdAt(p) /\ MetadataIdAt(p) \notin DOMAIN metadata_registry) =>
            /\ decode_next(DecoderAt(p)).k = "err"
            /\ decode_next(DecoderAt(p)).e
                   = Custom("Metadata ID {} not found", MetadataIdAt(p))
            /\ decode_next(DecoderAt(p)).st.pos = p + 9
            /\ decode_next(DecoderAt(p)).st.reg = metadata_registry
            /\ decode_next(DecoderAt(p)).st.lib = library_registry

\* a top-level call has met a ClassWithId with an unregistered metadata id
C11_Witness ==
    /\ last.k = "err"
    /\ ClassWithIdAt(before.pos)
    /\ MetadataIdAt(before.pos) \notin DOMAIN before.reg
    /\ last.e = Custom("Metadata ID {} not found", MetadataIdAt(before.pos))
    /\ pos = before.pos + 9
    /\ metadata_registry = before.reg

-----------------------------------------------------------------------------
(* The decoder on sources that no encoder wrote: a record begun by the bytes *)
(* of a well-formed opening, followed by bytes chosen freely.               *)

\* the bytes up to the first nested record: nothing (the record is top-level),
\* an ArraySingleObject of one element, a SystemClassWithMembers of one member
Openers ==
    { <<>>,
      <<16>> \o ToLE32(4) \o ToLE32(1),
      <<2>> \o ToLE32(1) \o <<1, 86>> \o ToLE32(1) \o <<1, 97>> }

\* what follows the tag byte under test
TagRests == { <<>>, <<11>>, <<1, 0, 0, 0, 0, 0, 0, 0, 0>> }

\* a record whose tag byte is any byte
TagStream ==
    \E opener \in Openers, b \in Byte, rest \in TagRests :
        /\ source = opener \o <<b>> \o rest
        /\ probe = [op |-> "tag", at |-> Len(opener), b |-> b]

\* byte strings and whether they are UTF-8: ASCII, two-, three- and four-byte
\* sequences; a byte that begins nothing, a sequence cut short, a continuation
\* byte out of place, overlong forms, a surrogate, a code point above U+10FFFF
Payloads ==
    { [bytes |-> <<65>>, valid |-> TRUE],
      [bytes |-> <<104, 105>>, valid |-> TRUE],
      [bytes |-> <<195, 169>>, valid |-> TRUE],
      [bytes |-> <<226, 130, 172>>, valid |-> TRUE],
      [bytes |-> <<240, 159, 152, 128>>, valid |-> TRUE],
      [bytes |-> <<255>>, valid |-> FALSE],
      [bytes |-> <<195>>, valid |-> FALSE],
      [bytes |-> <<65, 128>>, valid |-> FALSE],
      [bytes |-> <<195, 65>>, valid |-> FALSE],
      [bytes |-> <<192, 128>>, valid |-> FALSE],
      [bytes |-> <<224, 128, 128>>, valid |-> FALSE],
      [bytes |-> <<237, 160, 128>>, valid |-> FALSE],
      [bytes |-> <<244, 144, 128, 128>>, valid |-> FALSE] }

\* the 7-bit groups that read_variable_length_int decodes to n
LengthPrefix(n) ==
    CASE n = -1 -> <<255, 255, 255, 255, 15>>
      [] n = MinI32 -> <<128, 128, 128, 128, 8>>
      [] OTHER -> <<n>>

\* a BinaryObjectString whose length prefix and bytes are chosen freely: the
\* length is that of the bytes, one more, zero or negative
StringStream ==
    \E opener \in Openers, payload \in Payloads, more \in {<<>>, <<11>>} :
        \E n \in {Len(payload.bytes), Len(payload.bytes) + 1, 0, -1, MinI32} :
            /\ source = opener \o <<6>> \o ToLE32(3) \o LengthPrefix(n)
                               \o payload.bytes \o more
            /\ probe = [op |-> "string", at |-> Len(opener), n |-> n,
                        bytes |-> payload.bytes \o more,
                        valid |-> payload.valid]

\* BinaryLibrary records with two ids and two names
LibraryRecords ==
    { <<12>> \o ToLE32(id) \o <<1, c>> : id \in {2, 3}, c \in {76, 77} }

MaxLibraries == 3

\* up to MaxLibraries BinaryLibrary records, top-level or nested in a record that
\* has room for one of them or for one more than the source holds
LibraryStream ==
    \E opener \in Openers \cup { <<16>> \o ToLE32(4) \o ToLE32(4) },
       libs \in SeqsUpTo(LibraryRecords, MaxLibraries) :
        /\ source = opener \o Concat(libs)
        /\ probe = [op |-> "libraries", at |-> Len(opener)]

\* the bytes of a record up to its one BinaryType byte: a
\* SystemClassWithMembersAndTypes with one member, a BinaryArray of one element
TypedOpeners ==
    { <<4>> \o ToLE32(1) \o <<1, 86>> \o ToLE32(1) \o <<1, 97>>,
      <<7>> \o ToLE32(1) \o <<0>> \o ToLE32(1) \o ToLE32(1) }

\* what follows the BinaryType byte: the PrimitiveType tag of Int32 and four more
\* bytes; a one-byte name, a library id and an ObjectNull; an ObjectNull
PrimitiveTail == <<8, 10, 0, 0, 0>>
NameTail == <<1, 86, 2, 0, 0, 0, 10>>
RecordTail == <<10>>

\* a record with a MemberTypeInfo entry or an element type of any BinaryType
TypeInfoStream ==
    \E opener \in TypedOpeners, bt \in 0..7,
       tail \in {PrimitiveTail, NameTail, RecordTail}, more \in {<<>>, <<11>>} :
        /\ source = opener \o <<bt>> \o tail \o more
        /\ probe = [op |-> "type info", at |-> Len(opener) + 1, bt |-> bt,
                    tail |-> tail]

MaxClassMembers == 2

\* class records of the four kinds with up to MaxClassMembers members, among
\* them null runs and a ClassWithId that refers to the class it is a member of
ClassRecords ==
    { ClassWithMembersAndTypes(1, ms) :
          ms \in SeqsUpTo({ Member("Primitive", AtiPrimitive("Int32"),
                                   OvPrimitive(Prim("Int32", <<42>>))),
                            Member("Object", AtiNone, OvRecord(Null1)),
                            Member("Object", AtiNone, OvRecord(NullMany(2))) },
                          MaxClassMembers) }
    \cup { SystemClassWithMembersAndTypes(1, ms) :
          ms \in SeqsUpTo({ Member("Primitive", AtiPrimitive("Int32"),
                                   OvPrimitive(Prim("Int32", <<42>>))),
                            Member("String", AtiNone, OvRecord(Str)) },
                          MaxClassMembers) }
    \cup { ClassWithMembers(1, recs) :
          recs \in SeqsUpTo({Null1, NullMany(2), Str}, MaxClassMembers) }
    \cup { SystemClassWithMembers(1, recs) :
          recs \in SeqsUpTo({Null1, NullMany256(2)}, MaxClassMembers) }
    \cup { ClassWithMembers(1, <<ClassWithId(5, 1, <<OvRecord(Null1)>>)>>),
           SystemClassWithMembers(1, <<SystemClassWithMembers(1, <<>>), Null1>>) }
    \cup { ClassWithMembersAndTypes(1,
               <<Member("Object", AtiNone,
                        OvRecord(ClassWithId(5, 1, <<OvRecord(Null1)>>)))>>),
           SystemClassWithMembersAndTypes(1,
               <<Member("Object", AtiNone,
                        OvRecord(ClassWithId(5, 1, <<OvRecord(Str)>>)))>>) }

\* one or two class records, the last of which registers object id 1, and a
\* ClassWithId that refers to it, with the member values of that class
ClassStream ==
    \E first \in {<<>>, <<SystemClassWithMembers(1, <<Null1>>)>>,
                   <<SystemClassWithMembers(2, <<Null1>>)>>},
       class \in ClassRecords, more \in {<<>>, <<11>>} :
        /\ source = EncodeAll(first) \o encode(class).out
                        \o encode(ClassWithId(5, 1, class.member_values)).out \o more
        /\ probe = [op |-> "classes"]

InitBytes ==
    /\ trees = <<>>
    /\ preserve_order = FALSE
    /\ Unread
    /\ reader_drains \in BOOLEAN
    /\ (TagStream \/ StringStream \/ LibraryStream \/ TypeInfoStream
          \/ ClassStream)

NextBytes == DecodeNext

SpecBytes == InitBytes /\ [][NextBytes]_vars

-----------------------------------------------------------------------------
(* C12  Method-call tags.                                                   *)

\* the first decode_next call on the source has returned
FirstCall == last.k # "none" /\ before.pos = 0

\* C12: a decode_next call, top-level or nested, that reads tag byte 21 or 22
\* fails with the Custom "unimplemented record type" error holding that byte,
\* and one that reads a byte outside {0..17, 21, 22} fails with
\* InvalidRecordType(byte); a top-level call that meets such a tag in a nested
\* record returns that same error.
C12_MethodCallTags ==
    /\ \A p \in 0..(Len(source) - 1) :
         /\ source[p + 1] \in {21, 22} =>
               /\ decode_next(DecoderAt(p)).k = "err"
               /\ decode_next(DecoderAt(p)).e
                      = Custom("Unimplemented record type 0x{:02x}", source[p + 1])
         /\ source[p + 1] \notin RecordTags =>
               /\ decode_next(DecoderAt(p)).k = "err"
               /\ decode_next(DecoderAt(p)).e = InvalidRecordType(source[p + 1])
    /\ (probe.op = "tag" /\ FirstCall) =>
         /\ probe.b \in {21, 22} =>
               /\ last.k = "err"
               /\ last.e = Custom("Unimplemented record type 0x{:02x}", probe.b)
         /\ probe.b \notin RecordTags =>
               /\ last.k = "err"
               /\ last.e = InvalidRecordType(probe.b)

\* a top-level call has met tag 22 in a nested record
C12_Witness ==
    /\ probe.op = "tag" /\ probe.at > 0 /\ probe.b = 22
    /\ FirstCall
    /\ last.e = Custom("Unimplemented record type 0x{:02x}", 22)

-----------------------------------------------------------------------------
(* C13  Length-prefixed string decoding.                                    *)

\* where the length prefix of the string under test begins, and where it ends
StringAt == probe.at + 5
StringBody == StringAt + Len(LengthPrefix(probe.n))

\* read_length_prefixed_string called there
ReadString == read_length_prefixed_string(DecoderAt(StringAt))

\* C13: read_length_prefixed_string with a decoded length of 0 returns the empty
\* string and consumes nothing after the prefix; with a negative length it fails
\* with InvalidStringLength(length); with a positive length n of which n bytes
\* remain it consumes exactly those n bytes, returns them when they are UTF-8 and
\* fails with InvalidUtf8 when they are not; with fewer than n bytes remaining it
\* fails with an IO error.  The decode_next call that reads the string fails with
\* the same error.
C13_StringDecoding ==
    (probe.op = "string") =>
        /\ (probe.n = 0) =>
              /\ ReadString.k = "ok" /\ ReadString.v = <<>>
              /\ ReadString.st.pos = StringBody
        /\ (probe.n < 0) =>
              /\ ReadString.k = "err" /\ ReadString.e = InvalidStringLength(probe.n)
              /\ FirstCall => (last.k = "err" /\ last.e = InvalidStringLength(probe.n))
        /\ (probe.n > 0 /\ Len(probe.bytes) >= probe.n) =>
              /\ ReadString.st.pos = StringBody + probe.n
              /\ probe.valid =>
                    /\ ReadString.k = "ok"
                    /\ ReadString.v = SubSeq(probe.bytes, 1, probe.n)
              /\ (~ probe.valid) =>
                    /\ ReadString.k = "err" /\ ReadString.e = InvalidUtf8
                    /\ FirstCall => (last.k = "err" /\ last.e = InvalidUtf8)
        /\ (probe.n > 0 /\ Len(probe.bytes) < probe.n) =>
              /\ ReadString.k = "err" /\ ReadString.e = Io
              /\ FirstCall => (last.k = "err" /\ last.e = Io)
        /\ (FirstCall /\ probe.at = 0 /\ last.k = "record") =>
              /\ pos = StringBody + probe.n
              /\ records[1].value = SubSeq(probe.bytes, 1, probe.n)

\* a decode_next call has failed on a string of three bytes that are not UTF-8
C13_Witness ==
    /\ probe.op = "string" /\ probe.n = 3 /\ ~ probe.valid
    /\ FirstCall
    /\ last.e = InvalidUtf8

-----------------------------------------------------------------------------
(* C14  Library registry.                                                   *)

\* a library registry after the BinaryLibrary records of flat, in their order
RECURSIVE WithLibraries(_, _)
WithLibraries(lib, flat) ==
    IF flat = <<>> THEN lib
    ELSE WithLibraries(
             IF Head(flat).t = "BinaryLibrary"
             THEN [id \in (DOMAIN lib) \cup {Head(flat).library_id} |->
                       IF id = Head(flat).library_id THEN Head(flat).library_name
                       ELSE lib[id]]
             ELSE lib,
             Tail(flat))

\* a BinaryLibrary record with this id and name was decoded from the bytes at p
\* by the call that has just returned
DecodedLibraryAt(p, id, name) ==
    /\ source[p + 1] = 12
    /\ read_binary_library(DecoderAt(p + 1)).k = "ok"
    /\ read_binary_library(DecoderAt(p + 1)).v.library_id = id
    /\ read_binary_library(DecoderAt(p + 1)).v.library_name = name
    /\ read_binary_library(DecoderAt(p + 1)).st.pos <= pos

\* some library registry other than the empty one
OtherLibraries == [id \in {2} |-> <<90>>]

\* C14: a decode_next call that returns a record leaves library_registry as it
\* was, overwritten by the BinaryLibrary records it decoded (the record itself
\* or records nested in it) in their order; one that returns the end of the
\* stream leaves it as it was; one that fails adds nothing but BinaryLibrary
\* records it decoded; and no call reads it: with any other library registry
\* the call returns the same result and the same class registry.
C14_LibraryRegistry ==
    /\ (last.k = "record") =>
           library_registry = WithLibraries(before.lib, Flatten(<<LastRecord>>))
    /\ (last.k = "eof") => library_registry = before.lib
    /\ (last.k = "err") =>
           /\ DOMAIN before.lib \subseteq DOMAIN library_registry
           /\ \A id \in DOMAIN library_registry :
                  \/ id \in DOMAIN before.lib /\ library_registry[id] = before.lib[id]
                  \/ \E p \in before.pos..(pos - 1) :
                         DecodedLibraryAt(p, id, library_registry[id])
    /\ \A lib \in {<<>>, OtherLibraries} :
           /\ decode_next([Decoder EXCEPT !.lib = lib]).k = decode_next(Decoder).k
           /\ decode_next([Decoder EXCEPT !.lib = lib]).v = decode_next(Decoder).v
           /\ decode_next([Decoder EXCEPT !.lib = lib]).e = decode_next(Decoder).e
           /\ decode_next([Decoder EXCEPT !.lib = lib]).st.pos = decode_next(Decoder).st.pos
           /\ decode_next([Decoder EXCEPT !.lib = lib]).st.reg = decode_next(Decoder).st.reg

\* a BinaryLibrary record has replaced the name its id had
C14_Witness ==
    /\ last.k = "record"
    /\ LastRecord.t = "BinaryLibrary"
    /\ LastRecord.library_id \in DOMAIN before.lib
    /\ before.lib[LastRecord.library_id] # LastRecord.library_name
    /\ library_registry[LastRecord.library_id] = LastRecord.library_name

-----------------------------------------------------------------------------
(* The convenience iterator parse(reader), pulled by a consumer until it    *)
(* returns None (a `for` loop, `collect`).                                  *)

\* one call of the closure given to std::iter::from_fn: decode_next, and the
\* item made of its result; `last` is the item, `records` the Ok items so far
ParseNext ==
    /\ last.k # "eof"
    /\ DecodeNext

NextParse == ParseNext

\* the consumer goes on pulling
SpecParse == InitBytes /\ [][NextParse]_vars /\ WF_vars(NextParse)

-----------------------------------------------------------------------------
(* C15  The iterator ends at the first error.                               *)

\* C15: once parse(reader) has yielded an Err item it yields no further item:
\* the call that follows an Err item returns neither a record nor an error.
C15_NothingAfterError ==
    [][last.k = "err" => last'.k \notin {"record", "err"}]_vars

-----------------------------------------------------------------------------
(* C16  Encoder statelessness.                                              *)

-----------------------------------------------------------------------------
(* C17  AdditionalTypeInfo wire layout.                                     *)

\* the `match` that reads the AdditionalTypeInfo, called after the BinaryType
\* byte under test
ReadTypeInfo ==
    read_additional_type_info(DecoderAt(probe.at), BinaryType_try_from(probe.bt)[1])

\* the AdditionalTypeInfo of the record the first call returned
ReturnedTypeInfo ==
    IF LastRecord.t = "BinaryArray" THEN LastRecord.additional_type_info
    ELSE LastRecord.member_type_info.additional_infos[1]

\* C17: for a MemberTypeInfo entry or a BinaryArray element type the decoder
\* reads one PrimitiveType byte when the BinaryType is Primitive or
\* PrimitiveArray, a length-prefixed name when it is SystemClass, a
\* length-prefixed name and an i32 library id when it is Class, and nothing when
\* it is String, Object, ObjectArray or StringArray; the record returned carries
\* what was read.
C17_TypeInfoLayout ==
    (probe.op = "type info") =>
        /\ (probe.bt \in {0, 7} /\ probe.tail = PrimitiveTail) =>
              /\ ReadTypeInfo.k = "ok"
              /\ ReadTypeInfo.v = AtiPrimitive("Int32")
              /\ ReadTypeInfo.st.pos = probe.at + 1
              /\ (FirstCall /\ last.k = "record") =>
                     ReturnedTypeInfo = AtiPrimitive("Int32")
        /\ (probe.bt = 3 /\ probe.tail = NameTail) =>
              /\ ReadTypeInfo.k = "ok"
              /\ ReadTypeInfo.v = AtiSystemClass(<<86>>)
              /\ ReadTypeInfo.st.pos = probe.at + 2
        /\ (probe.bt = 4 /\ probe.tail = NameTail) =>
              /\ ReadTypeInfo.k = "ok"
              /\ ReadTypeInfo.v = AtiClass(<<86>>, 2)
              /\ ReadTypeInfo.st.pos = probe.at + 6
        /\ (probe.bt \in {1, 2, 5, 6}) =>
              /\ ReadTypeInfo.k = "ok"
              /\ ReadTypeInfo.v = AtiNone
              /\ ReadTypeInfo.st.pos = probe.at

-----------------------------------------------------------------------------
(* C18  Member counts.                                                      *)

\* the member count of each registered class
MemberCounts(reg) == [id \in DOMAIN reg |-> reg[id].class_info.member_count]

\* the records of flat, in the order they were read, have as many member names,
\* types and values as their member count says, a ClassWithId as many values as
\* the member count registered under its metadata id when it was read
RECURSIVE CountsHold(_, _)
CountsHold(counts, flat) ==
    IF flat = <<>> THEN TRUE
    ELSE IF IsClass(Head(flat))
    THEN /\ Len(Head(flat).class_info.member_names) = Head(flat).class_info.member_count
         /\ Len(Head(flat).member_values) = Head(flat).class_info.member_count
         /\ IsTypedClass(Head(flat)) =>
               /\ Len(Head(flat).member_type_info.binary_type_enums)
                      = Head(flat).class_info.member_count
               /\ Len(Head(flat).member_type_info.additional_infos)
                      = Head(flat).class_info.member_count
         /\ CountsHold([id \in (DOMAIN counts) \cup {Head(flat).class_info.object_id} |->
                            IF id = Head(flat).class_info.object_id
                            THEN Head(flat).class_info.member_count
                            ELSE counts[id]],
                       Tail(flat))
    ELSE IF Head(flat).t = "ClassWithId"
    THEN /\ Head(flat).metadata_id \in DOMAIN counts
         /\ Len(Head(flat).member_values) = counts[Head(flat).metadata_id]
         /\ CountsHold(counts, Tail(flat))
    ELSE CountsHold(counts, Tail(flat))

\* C18: in the record a decode_next call returns, and in every record nested in
\* it, a class record has member_count member names and member values, a typed
\* class record also member_count BinaryTypes and AdditionalTypeInfos, and a
\* ClassWithId has as many member values as the member_count of the registry
\* entry it referred to.
C18_MemberCounts ==
    (last.k = "record") =>
        CountsHold(MemberCounts(before.reg), Flatten(<<LastRecord>>))

\* a ClassWithId with two member values has been returned; the class it refers
\* to had been registered twice, the first time with one member
C18_Witness ==
    /\ last.k = "record"
    /\ LastRecord.t = "ClassWithId"
    /\ Len(LastRecord.member_values) = 2
    /\ before.reg[LastRecord.metadata_id].class_info.member_count = 2
    /\ Len(records) = 3
    /\ records[1].class_info.member_count = 1

-----------------------------------------------------------------------------
(* C19  Interleaved class shape round trip.                                 *)

\* from_interleaved has run on the projection of the records decoded
Reconstructed == int_step \in {"reconstructed", "encoded"}

\* C19: where the JSON map keeps the order of insertion, every class record
\* decoded, whatever its member names, comes back from
\* from_interleaved(to_interleaved(..)) as one class record in its place, with the
\* same object_id, name, member_count and member_names in the same order, and
\* with as many member values.
C19_ClassShape ==
    (preserve_order /\ Reconstructed) =>
        /\ Len(interleaved_reconstructed_records) = Len(records)
        /\ \A i \in 1..Len(records) :
              IsClass(records[i]) =>
                  /\ IsClass(interleaved_reconstructed_records[i])
                  /\ interleaved_reconstructed_records[i].class_info
                         = records[i].class_info
                  /\ Len(interleaved_reconstructed_records[i].member_values)
                         = Len(records[i].member_values)

-----------------------------------------------------------------------------
(* C20  Interleaved ClassWithId typing.                                     *)

\* in the records of flat, in the order from_interleaved made them, every member
\* of a ClassWithId whose metadata id a typed class before it has registered,
\* and whose registered BinaryType is Primitive, is the PrimitiveValue variant of
\* the PrimitiveType registered for it
RECURSIVE TypedAsRegistered(_, _)
TypedAsRegistered(reg, flat) ==
    IF flat = <<>> THEN TRUE
    ELSE IF IsTypedClass(Head(flat))
    THEN TypedAsRegistered(
             [id \in (DOMAIN reg) \cup {Head(flat).class_info.object_id} |->
                  IF id = Head(flat).class_info.object_id
                  THEN Head(flat).member_type_info ELSE reg[id]],
             Tail(flat))
    ELSE IF Head(flat).t = "ClassWithId" /\ Head(flat).metadata_id \in DOMAIN reg
    THEN /\ \A i \in 1..Len(Head(flat).member_values) :
               (/\ reg[Head(flat).metadata_id].binary_type_enums[i] = "Primitive"
                /\ reg[Head(flat).metadata_id].additional_infos[i].ai = "Primitive") =>
                   /\ Head(flat).member_values[i].ov = "Primitive"
                   /\ Head(flat).member_values[i].val.pt
                          = reg[Head(flat).metadata_id].additional_infos[i].pt
         /\ TypedAsRegistered(reg, Tail(flat))
    ELSE TypedAsRegistered(reg, Tail(flat))

\* a ClassWithId whose metadata id nothing has registered, with an Int16 member
Unregistered == ClassWithId(5, 9, <<OvPrimitive(Prim("Int16", <<7>>))>>)

\* C20: in what from_interleaved returns, every member of a ClassWithId whose
\* metadata id was registered by a typed class before it in the JSON tree, and
\* whose registered BinaryType is Primitive, is the PrimitiveValue variant of the
\* PrimitiveType registered at its index; a primitive member of a ClassWithId
\* whose metadata id is not registered is typed by the shape of its JSON value
\* (an integer comes back as Int32).
C20_ClassWithIdTyping ==
    /\ Reconstructed =>
           TypedAsRegistered(<<>>, Flatten(interleaved_reconstructed_records))
    /\ from_interleaved(to_interleaved(<<Unregistered>>))
           = <<ClassWithId(5, 9, <<OvPrimitive(Prim("Int32", <<7>>))>>)>>

\* from_interleaved has returned a ClassWithId with an Int16 member, nested in a
\* record after the typed class that registered its metadata id
C20_Witness ==
    /\ Reconstructed
    /\ Len(interleaved_reconstructed_records) = 2
    /\ interleaved_reconstructed_records[1].t = "ClassWithMembers"
    /\ Len(interleaved_reconstructed_records[1].member_values) = 2
    /\ interleaved_reconstructed_records[1].member_values[2].val
           = ClassWithId(5, 1, <<OvPrimitive(Prim("Int16", <<8>>))>>)

-----------------------------------------------------------------------------
(* to_interleaved and from_interleaved on records a caller has built (the    *)
(* fields of every record type are public), not decoded.                    *)

MaxBuiltMembers == 2

\* members of a typed class: three whose AdditionalTypeInfo fits the BinaryType
\* and four of BinaryType Primitive whose AdditionalTypeInfo is no PrimitiveType
BuiltMembers ==
    { Member("Primitive", AtiPrimitive("Int32"), OvPrimitive(Prim("Int32", <<42>>))),
      Member("Primitive", AtiPrimitive("Int16"), OvPrimitive(Prim("Int16", <<7>>))),
      Member("String", AtiNone, OvRecord(Str)),
      Member("Primitive", AtiNone, OvPrimitive(Prim("Int16", <<7>>))),
      Member("Primitive", AtiNone, OvRecord(Str)),
      Member("Primitive", AtiSystemClass(<<86>>), OvRecord(Null1)),
      Member("Primitive", AtiClass(<<86>>, 2), OvPrimitive(Prim("Boolean", <<1>>))) }

BuiltRecords ==
    { ClassWithMembersAndTypes(1, ms) : ms \in SeqsUpTo(BuiltMembers, MaxBuiltMembers) }
    \cup { SystemClassWithMembersAndTypes(1, ms) :
               ms \in SeqsUpTo(BuiltMembers, MaxBuiltMembers) }

InitBuilt ==
    /\ \E r \in BuiltRecords : trees = <<r>>
    /\ source = <<>>
    /\ reader_drains = TRUE
    /\ preserve_order \in BOOLEAN
    /\ Unread
    /\ probe = [op |-> "built"]

\* `to_interleaved(&records)` on the records the caller built
ToInterleavedBuilt ==
    /\ probe.op = "built"
    /\ int_step = "decode"
    /\ interleaved_json' = to_interleaved(trees)
    /\ int_step' = "projected"
    /\ UNCHANGED <<source, trees, reader_drains, overflow_checks, pos, metadata_registry,
                   library_registry, offset, last, before, records, writer, encoded,
                   encode_failed, probe, preserve_order,
                   interleaved_reconstructed_records, int_reconstructed_data,
                   int_encode_failed>>

NextBuilt == ToInterleavedBuilt \/ FromInterleaved \/ EncodeInterleaved

SpecBuilt == InitBuilt /\ [][NextBuilt]_vars

-----------------------------------------------------------------------------
(* C21  Mismatched AdditionalTypeInfo in interleaved decode.                *)

\* a typed class record with a member of BinaryType Primitive whose
\* AdditionalTypeInfo is not a PrimitiveType
Mismatched(r) ==
    /\ IsTypedClass(r)
    /\ \E i \in 1..Len(r.member_type_info.binary_type_enums) :
           /\ r.member_type_info.binary_type_enums[i] = "Primitive"
           /\ r.member_type_info.additional_infos[i].ai # "Primitive"

\* C21: from_interleaved does not turn an entry with a member of BinaryType
\* Primitive and an AdditionalTypeInfo that is no PrimitiveType into a record:
\* no record it returns has such a member.
C21_MismatchReported ==
    Reconstructed =>
        \A i \in 1..Len(interleaved_reconstructed_records) :
            ~ Mismatched(interleaved_reconstructed_records[i])

-----------------------------------------------------------------------------
(* C22  Offset accounting.                                                  *)

\* C22: after a decode_next call that returned a record the public offset is
\* the number of bytes consumed from the source since construction; a call
\* that returned end of stream left offset as it was; no call lowers offset.
C22_OffsetAccounting ==
    /\ last.k = "record" => offset = pos
    /\ last.k = "eof" => offset = before.off
    /\ last.k # "none" => offset >= before.off

\* a call made when offset was already above 0 returned a record of several
\* bytes
C22_Witness ==
    /\ last.k = "record"
    /\ before.off > 0
    /\ offset > before.off + 1
    /\ offset = pos

-----------------------------------------------------------------------------
(* Streams of member and element values: a typed class or a BinaryArray     *)
(* whose members or elements are declared (Primitive, t), with the bytes of *)
(* the values chosen freely, and records that hold records and nulls.  Each *)
(* is decoded to its end and encoded again, as Spec does.                   *)

MaxValues == 2

PrimitiveTypeNames ==
    { "Boolean", "Byte", "Char", "Decimal", "Double", "Int16", "Int32", "Int64",
      "SByte", "Single", "TimeSpan", "DateTime", "UInt16", "UInt32", "UInt64",
      "Null", "String" }

ByteSamples == {0, 65, 127, 128, 200, 255}

\* the bytes of one value of a PrimitiveType: for a fixed width the bytes
\* b, b+1, ..; a length-prefixed string; nothing for Null
ValueBytes(pt) ==
    IF pt = "String" THEN { <<0>>, <<2, 104, 105>> }
    ELSE { [i \in 1..PrimitiveWidth(pt) |-> (b + i - 1) % 256] : b \in ByteSamples }

\* the bytes before the values: a SystemClassWithMembersAndTypes with n
\* members, or a single-dimensional BinaryArray of length n
ValueOpeners(pt, n) ==
    { <<4>> \o ToLE32(1) \o <<1, 86>> \o ToLE32(n)
           \o Concat([i \in 1..n |-> <<1, 96 + i>>])
           \o [i \in 1..n |-> 0]
           \o [i \in 1..n |-> PrimitiveType_as_u8(pt)],
      <<7>> \o ToLE32(4) \o <<0>> \o ToLE32(1) \o ToLE32(n)
           \o <<0, PrimitiveType_as_u8(pt)>> }

PrimitiveValueStream ==
    \E pt \in PrimitiveTypeNames, n \in 1..MaxValues :
        \E opener \in ValueOpeners(pt, n), vals \in [1..n -> ValueBytes(pt)] :
            /\ trees = <<>>
            /\ source = opener \o Concat(vals) \o <<11>>
            /\ probe = [op |-> "values", pt |-> pt, at |-> Len(opener), n |-> n,
                        bytes |-> Concat(vals)]

ValueTrees ==
    { ClassWithMembersAndTypes(1, ms) : ms \in SeqsUpTo(MemberKinds, MaxValues) }
    \cup { ArraySingle("ArraySingleObject", Len(recs), recs) :
               recs \in SeqsUpTo({Str, Ref, Null1, ClassWithMembers(1, <<Str>>)}, MaxValues) }
    \cup { ClassWithMembers(1, <<Str, Null1>>), SystemClassWithMembers(1, <<Null1>>),
           ArraySingle("ArraySingleObject", 2,
               <<Null1, ClassWithMembersAndTypes(1,
                   << Member("Primitive", AtiPrimitive("Int32"),
                             OvPrimitive(Prim("Int32", <<42>>))),
                      Member("String", AtiNone, OvRecord(Str)) >>)>>) }

RecordValueStream ==
    \E subject \in ValueTrees :
        /\ trees = <<subject, End>>
        /\ source = EncodeAll(trees)
        /\ probe = [op |-> "values", pt |-> "", at |-> 0, n |-> 0, bytes |-> <<>>]

InitValues ==
    /\ preserve_order = FALSE
    /\ Unread
    /\ reader_drains \in BOOLEAN
    /\ (PrimitiveValueStream \/ RecordValueStream)

SpecValues == InitValues /\ [][Next]_vars

-----------------------------------------------------------------------------
(* C23  Encoding of an ObjectValue in member or element position.           *)

\* the member or element values of a record
ValuesOf(r) ==
    IF IsClass(r) \/ r.t = "ClassWithId" THEN r.member_values
    ELSE IF IsObjectArray(r) THEN r.element_values
    ELSE <<>>

\* the bytes of a primitive value other than Null and String: its little-endian
\* representation at the width of its type
RawBytes(p) ==
    CASE p.pt \in {"Boolean", "Byte", "Char"} -> <<p.v[1]>>
      [] p.pt = "SByte" -> <<p.v[1] % 256>>
      [] p.pt = "Int16" -> <<p.v[1] % 256, (p.v[1] \div 256) % 256>>
      [] p.pt = "UInt16" -> <<p.v[1] % 256, p.v[1] \div 256>>
      [] p.pt = "Int32" -> ToLE32(p.v[1])
      [] p.pt = "Decimal" -> hex_decode(p.v)[1]
      [] OTHER -> p.v

\* what the claim has the encoder write for one ObjectValue
WrittenFor(val) ==
    IF val.ov = "Record"
    THEN <<RecordType_as_u8(val.val.t)>> \o Tail(encode(val.val).out)
    ELSE IF val.val.pt = "Null" THEN <<10>>
    ELSE IF val.val.pt = "String"
    THEN write_variable_length_int_bytes(Len(val.val.v)) \o val.val.v
    ELSE RawBytes(val.val)

\* the last Len(tail) bytes of bytes are tail
EndsWith(bytes, tail) ==
    /\ Len(tail) <= Len(bytes)
    /\ SubSeq(bytes, Len(bytes) - Len(tail) + 1, Len(bytes)) = tail

\* C23: where the encoder has written a record, the bytes of each record in it
\* that holds member or element values end with what is written for these
\* values in order: the one byte 0x0A for Primitive(Null), the raw bytes of
\* any other primitive without a tag, and the full encoding of a wrapped
\* record, its tag byte first.
C23_ObjectValueEncoding ==
    (encoded > 0 /\ ~ encode_failed) =>
        /\ \A r \in {Flatten(<<records[encoded]>>)[i] :
                         i \in 1..Len(Flatten(<<records[encoded]>>))} :
               EndsWith(encode(r).out,
                        Concat([i \in 1..Len(ValuesOf(r)) |-> WrittenFor(ValuesOf(r)[i])]))
        /\ EndsWith(writer, encode(records[encoded]).out)

\* the member and element values of a record and of the records nested in it
AllValuesOf(r) ==
    UNION { {ValuesOf(Flatten(<<r>>)[i])[j] : j \in 1..Len(ValuesOf(Flatten(<<r>>)[i]))} :
                i \in 1..Len(Flatten(<<r>>)) }

\* a record with a null, another primitive and a wrapped record among its
\* values has been encoded
C23_Witness ==
    /\ encoded > 0
    /\ ~ encode_failed
    /\ \E v \in AllValuesOf(records[1]) : v.ov = "Primitive" /\ v.val.pt = "Null"
    /\ \E v \in AllValuesOf(records[1]) : v.ov = "Primitive" /\ v.val.pt = "Int32"
    /\ \E v \in AllValuesOf(records[1]) : v.ov = "Record"
    /\ writer = SubSeq(source, 1, Len(writer))
-----------------------------------------------------------------------------
(* C24  Primitive width symmetry.                                           *)

\* the first record of a stream of (Primitive, t) values has just been decoded
ValuesDecoded ==
    /\ probe.op = "values"
    /\ probe.pt # ""
    /\ last.k = "record"
    /\ Len(records) = 1

\* how many bytes the encoder writes for the values of a record
WrittenWidth(r) ==
    Len(Concat([i \in 1..Len(ValuesOf(r)) |-> write_object_value(ValuesOf(r)[i]).out]))

\* C24: for members or elements declared (Primitive, t), t any PrimitiveType,
\* Null included, the encoder writes for the decoded values as many bytes as
\* the decoder consumed for them, which is the width of t for each value
\* (0 for Null, the prefixed length for String).
C24_WidthSymmetry ==
    ValuesDecoded =>
        /\ Len(ValuesOf(records[1])) = probe.n
        /\ pos - probe.at = Len(probe.bytes)
        /\ probe.pt # "String" => pos - probe.at = probe.n * PrimitiveWidth(probe.pt)
        /\ WrittenWidth(records[1]) = pos - probe.at

-----------------------------------------------------------------------------
(* C27  Char primitive.                                                     *)

\* a stream of (Primitive, Char) values whose first record has been decoded
CharsDecoded ==
    /\ probe.op = "values"
    /\ probe.pt = "Char"
    /\ Len(records) >= 1

\* C27: the decoder reads exactly one byte b for a Char and stores the code
\* point with value b, and encoding the decoded value writes the byte b again,
\* for every byte b, those from 0x80 on included.
C27_CharRoundTrip ==
    /\ (CharsDecoded /\ Len(records) = 1 /\ last.k = "record") =>
           pos - probe.at = probe.n
    /\ CharsDecoded =>
           /\ Len(ValuesOf(records[1])) = probe.n
           /\ \A i \in 1..probe.n :
                  ValuesOf(records[1])[i] = OvPrimitive(Prim("Char", <<probe.bytes[i]>>))
    /\ (CharsDecoded /\ encoded >= 1) =>
           /\ ~ encode_failed
           /\ SubSeq(writer, probe.at + 1, probe.at + probe.n) = probe.bytes

\* a Char read from a byte from 0x80 on has been decoded and encoded
C27_Witness ==
    /\ CharsDecoded
    /\ encoded >= 1
    /\ \E i \in 1..probe.n : probe.bytes[i] >= 128

\* C27 as stated: the decoder reads one byte b and stores the code point b, and
\* only the bytes below 0x80 come back: for b >= 0x80 encoding the decoded Char
\* does not write the byte b.
C27_CharAsciiOnly ==
    /\ CharsDecoded =>
           \A i \in 1..probe.n :
               ValuesOf(records[1])[i] = OvPrimitive(Prim("Char", <<probe.bytes[i]>>))
    /\ (CharsDecoded /\ encoded >= 1) =>
           \A i \in 1..probe.n :
               (writer[probe.at + i] = probe.bytes[i]) <=> (probe.bytes[i] < 128)

-----------------------------------------------------------------------------
(* C25  The bytes of write_variable_length_int.                             *)

\* write_variable_length_int(probe.x) has put its bytes into the writer
VlqWritten == probe.op = "written" \/ (probe.op = "read" /\ probe.written)

\* the least number of seven-bit groups that hold x, 0 <= x < 2^31
MinimalGroups(x) ==
    IF x < 128 THEN 1
    ELSE IF x < 16384 THEN 2
    ELSE IF x < 2097152 THEN 3
    ELSE IF x < 268435456 THEN 4
    ELSE 5

\* C25: for a non-negative i32 x, write_variable_length_int writes the
\* seven-bit groups of x least significant first, the high bit set on every
\* byte but the last, in the least number of bytes (1 up to 127, 2 up to
\* 16383, 3 up to 2097151, .. 5); 200 is written C8 01 and 16384 80 80 01.
C25_VlqBytes ==
    VlqWritten =>
        /\ Len(writer) = MinimalGroups(probe.x)
        /\ \A i \in 1..Len(writer) :
               /\ writer[i] % 128 = (probe.x \div (128 ^ (i - 1))) % 128
               /\ (writer[i] >= 128) <=> (i < Len(writer))
        /\ probe.x = 200 => writer = <<200, 1>>
        /\ probe.x = 16384 => writer = <<128, 128, 1>>

\* 16384, the first value of three bytes, has been written
C25_Witness ==
    /\ probe.op = "written"
    /\ probe.x = 16384
    /\ writer = <<128, 128, 1>>

-----------------------------------------------------------------------------
(* BinaryArray records whose header is chosen freely: the array type, the   *)
(* rank, the lengths, lower bounds present or not, elements that are bytes  *)
(* or records; what follows are ObjectNull records and null runs of no      *)
(* null.  The build is one with or without arithmetic overflow checks.      *)

MaxRank == 2
MaxArrayElems == 4

ArrayLengths == {-1, 0, 1, 2, 4, 65536, 1073741825}

\* what follows the type of the elements: records that are elements as long as
\* the array has room, and records of the stream after that
ArrayTails ==
    { <<>>, <<10, 10>>, <<10, 10, 10, 10, 10, 11>>,
      <<13, 0, 10, 11>>, <<14>> \o ToLE32(-1) \o <<10, 10, 11>>,
      <<13, 0, 14>> \o ToLE32(0) \o <<10, 11>> }

ArrayStream ==
    \E ate \in {0, 3, 4, 5, 6}, rank \in 0..MaxRank, with_bounds \in BOOLEAN,
       type \in { <<0, 2>>, <<2>> }, tail \in ArrayTails :
        \E lengths \in [1..rank -> ArrayLengths] :
            /\ (IF product(lengths, 1) = <<>> THEN TRUE
                ELSE product(lengths, 1)[1] <= MaxArrayElems)
            /\ source = <<7>> \o ToLE32(4) \o <<ate>> \o ToLE32(rank)
                            \o Concat([i \in 1..rank |-> ToLE32(lengths[i])])
                            \o (IF with_bounds
                                THEN Concat([i \in 1..rank |-> ToLE32(i)]) ELSE <<>>)
                            \o type \o tail
            /\ probe = [op |-> "array", ate |-> ate, rank |-> rank, lengths |-> lengths,
                        with_bounds |-> with_bounds, type |-> type, tail |-> tail]

InitArrays ==
    /\ trees = <<>>
    /\ preserve_order = FALSE
    /\ NothingRead
    /\ overflow_checks \in BOOLEAN
    /\ reader_drains \in BOOLEAN
    /\ ArrayStream

NextArrays == DecodeNext

SpecArrays == InitArrays /\ [][NextArrays]_vars

-----------------------------------------------------------------------------
(* C26  BinaryArray element count.                                          *)

\* the first decode_next call on a BinaryArray stream has been made
ArrayRead == probe.op = "array" /\ last.k # "none" /\ before.pos = 0

\* the product of the lengths, <<>> when it or a partial product is beyond the
\* i32 range
RECURSIVE MathProduct(_, _)
MathProduct(lengths, acc) ==
    IF lengths = <<>> THEN <<acc>>
    ELSE IF MulOverflows(acc, Head(lengths))
    THEN (IF \E i \in 1..Len(lengths) : lengths[i] = 0 THEN <<0>> ELSE <<>>)
    ELSE MathProduct(Tail(lengths), acc * Head(lengths))

\* C26: the decoder reads as many logical elements for a BinaryArray as the
\* mathematical product of its rank lengths, without wrap-around and without
\* an overflow failure for a product beyond the i32 range, and it reads lower
\* bounds (rank x i32) exactly when the array type is 3, 4 or 5.
C26_ElementCount ==
    ArrayRead =>
        /\ last.k = "record" =>
               /\ MathProduct(probe.lengths, 1) # <<>>
               /\ Len(records[1].element_values) = MathProduct(probe.lengths, 1)[1]
               /\ (records[1].lower_bounds # <<>>) <=> (probe.ate \in {3, 4, 5})
               /\ records[1].lower_bounds # <<>> =>
                      Len(records[1].lower_bounds[1]) = probe.rank
        /\ MathProduct(probe.lengths, 1) = <<>> => last.k # "panic"

-----------------------------------------------------------------------------
(* C28  Registry population and overwrite.                                  *)

\* the entry a class record installs: MemberTypeInfo for the two typed kinds,
\* a library id for the two kinds that carry one
EntryOf(r) ==
    ClassInfoWithTypes(r.class_info,
        IF IsTypedClass(r) THEN <<r.member_type_info>> ELSE <<>>,
        IF r.t \in {"ClassWithMembersAndTypes", "ClassWithMembers"}
        THEN <<r.library_id>> ELSE <<>>)

\* the member values of a ClassWithId follow the entry: as many as its member
\* count, a primitive where the entry declares BinaryType Primitive and a
\* record everywhere else
FollowsEntry(r, entry) ==
    /\ Len(r.member_values) = entry.class_info.member_count
    /\ \A i \in 1..Len(r.member_values) :
           (r.member_values[i].ov = "Primitive")
               <=> (/\ entry.member_type_info # <<>>
                    /\ entry.member_type_info[1].binary_type_enums[i] = "Primitive")

\* the records of flat, read in this order with registry reg, leave the
\* registry final: every class record installs its entry over an earlier one
\* of the same object id, and every ClassWithId follows the entry that is under
\* its metadata id at that point
RECURSIVE RegistryWalk(_, _, _)
RegistryWalk(reg, flat, final) ==
    IF flat = <<>> THEN reg = final
    ELSE IF IsClass(Head(flat))
    THEN RegistryWalk([id \in (DOMAIN reg) \cup {Head(flat).class_info.object_id} |->
                           IF id = Head(flat).class_info.object_id
                           THEN EntryOf(Head(flat)) ELSE reg[id]],
                      Tail(flat), final)
    ELSE IF Head(flat).t = "ClassWithId"
    THEN /\ Head(flat).metadata_id \in DOMAIN reg
         /\ FollowsEntry(Head(flat), reg[Head(flat).metadata_id])
         /\ RegistryWalk(reg, Tail(flat), final)
    ELSE RegistryWalk(reg, Tail(flat), final)

\* C28: each of the four class records, top-level or nested, installs an entry
\* under its object id, with MemberTypeInfo only for the two typed kinds; a
\* ClassWithId uses the member count and MemberTypeInfo of the class record
\* decoded last under its metadata id; and no call, failed ones included, ever
\* removes an entry.
C28_RegistryOverwrite ==
    /\ [](last.k = "record" =>
              RegistryWalk(before.reg, Flatten(<<LastRecord>>), metadata_registry))
    /\ [][DOMAIN metadata_registry \subseteq DOMAIN metadata_registry']_vars

\* a ClassWithId has been returned that followed a typed entry installed over
\* an untyped one of the same object id
C28_Witness ==
    /\ last.k = "record"
    /\ Len(records) = 3
    /\ records[1].t = "SystemClassWithMembers"
    /\ IsTypedClass(records[2])
    /\ records[1].class_info.object_id = records[2].class_info.object_id
    /\ LastRecord.t = "ClassWithId"
    /\ LastRecord.metadata_id = records[2].class_info.object_id
    /\ Len(LastRecord.member_values) = 2
    /\ LastRecord.member_values[1].ov = "Primitive"
    /\ metadata_registry[LastRecord.metadata_id] = EntryOf(records[2])

-----------------------------------------------------------------------------
(* C29  Registration order.                                                 *)

\* the last decode_next call was top-level and read the tag of a class record
ClassCall ==
    /\ last.k # "none"
    /\ before.pos < Len(source)
    /\ source[before.pos + 1] \in {2, 3, 4, 5}

\* the decoder of that call after the tag byte
AfterTag ==
    [pos |-> before.pos + 1, reg |-> before.reg, lib |-> before.lib,
     off |-> before.off + 1, hit_eof |-> FALSE]

\* what a class record has before its member values: the ClassInfo, for tags
\* 4 and 5 the MemberTypeInfo, for tags 3 and 5 the library id
ClassHeader(st, tag) ==
    Then(read_class_info(st), LAMBDA class_info, s1 :
    Then(IF tag \in {4, 5} THEN read_member_type_info(s1, class_info.member_count)
         ELSE Ok(<<>>, s1), LAMBDA member_type_info, s2 :
    Then(IF tag \in {3, 5} THEN read_i32(s2) ELSE Ok(0, s2), LAMBDA library_id, s3 :
        Ok(class_info, s3))))

HeaderRead == ClassHeader(AfterTag, source[before.pos + 1])

\* C29: a class record installs its entry once its ClassInfo, MemberTypeInfo
\* and library id have been read (a call that fails before that leaves the
\* registry as it was) and before its first member value is decoded (a call
\* that fails after that has installed it), so a ClassWithId that is the first
\* member value of the class and refers to the object id of the class is read
\* by the layout of the class and does not fail with 'metadata id not found'.
C29_RegistrationOrder ==
    ClassCall =>
        /\ HeaderRead.k # "ok" => metadata_registry = before.reg
        /\ HeaderRead.k = "ok" =>
               /\ HeaderRead.v.object_id \in DOMAIN metadata_registry
               /\ (/\ HeaderRead.v.member_count > 0
                   /\ ClassWithIdAt(HeaderRead.st.pos)
                   /\ MetadataIdAt(HeaderRead.st.pos) = HeaderRead.v.object_id) =>
                      /\ last.e # Custom("Metadata ID {} not found",
                                         HeaderRead.v.object_id)
                      /\ last.k = "record" =>
                             /\ LastRecord.member_values[1].ov = "Record"
                             /\ LastRecord.member_values[1].val.t = "ClassWithId"
                             /\ FollowsEntry(LastRecord.member_values[1].val,
                                             EntryOf(LastRecord))

\* a typed class record whose first member value is a ClassWithId that refers
\* to the class itself has been returned by the first call on the source, the
\* registry empty before
C29_Witness ==
    /\ ClassCall
    /\ before.pos = 0
    /\ last.k = "record"
    /\ IsTypedClass(LastRecord)
    /\ Len(LastRecord.member_values) = 1
    /\ LastRecord.member_values[1].ov = "Record"
    /\ LastRecord.member_values[1].val.t = "ClassWithId"
    /\ LastRecord.member_values[1].val.metadata_id = LastRecord.class_info.object_id
    /\ Len(LastRecord.member_values[1].val.member_values) = 1

-----------------------------------------------------------------------------
(* C30  Termination.                                                        *)

\* C30: every decode_next call on a finite source ends with a record, end of
\* stream or an error, also when the elements of an array are null runs of no
\* null; a call that does not end with end of stream has consumed at least one
\* byte.
C30_Termination ==
    (probe.op = "array" /\ last.k # "none") =>
        /\ last.k \in {"record", "eof", "err"}
        /\ last.k # "eof" => pos > before.pos

=============================================================================
